---- MODULE Spec2Model ----
(***************************************************************************)
(* WorkoutTimer: the step builder and the run controller of src/app.js     *)
(* (the variant with per-exercise overrides, transition rest and one-shot  *)
(* cues, lines 458-1224).  Every handler is a function on the record of    *)
(* the program's globals; an action applies one handler to the current     *)
(* globals.  Indices are 0-based as in the source; steps[i] of the source  *)
(* is steps[i + 1] here.                                                   *)
(***************************************************************************)
EXTENDS Integers, Sequences, FiniteSets, TLC

VARIABLES
    steps,                   \* let steps = []
    workout,                 \* let workout = null
    currentStepIndex,        \* let currentStepIndex = 0
    secondsRemaining,        \* let secondsRemaining = 0
    intervalId,              \* let intervalId = null
    isRunning,               \* let isRunning = false
    hasStarted,              \* let hasStarted = false
    isFinished,              \* let isFinished = false
    lastHalfCueStepIndex,    \* one-shot tracker of the halfway cue
    lastFinalCueKey,         \* one-shot tracker of the 3..2..1 cue
    lastSpokenRestStepIndex, \* one-shot tracker of the spoken "Rest"
    timers,                  \* interval timers registered with the browser
    dom,                     \* what the page shows (labels, buttons, view)
    form,                    \* what the setup form holds (inputs, rows)
    effects,                 \* beeps, speech and alerts of the last event
    cueLog,                  \* the cues sounded on the current step so far
    storage,                 \* localStorage: what the presets key holds
    tickCount,               \* ticks since Start, while only ticks moved the run
    rerunLog,                \* cues of step 0: since the last reset, before it
    lastOp,                  \* the last event that was handled
    prevPhase                \* the phase that event was handled in

vars == <<steps, workout, currentStepIndex, secondsRemaining, intervalId,
          isRunning, hasStarted, isFinished, lastHalfCueStepIndex,
          lastFinalCueKey, lastSpokenRestStepIndex, timers, dom, form,
          effects, cueLog, storage, tickCount, rerunLog, lastOp,
          prevPhase>>

----------------------------------------------------------------------------
(* Bounds of the model                                                     *)

MaxWork == 4        \* the work seconds typed into the form
MaxRest == 1        \* the rest seconds typed into the form, when not 0
MaxExercises == 2   \* circuit A has up to MaxExercises exercise rows

----------------------------------------------------------------------------
(* Encodings of JavaScript null                                            *)

NullId == 0                \* intervalId = null
NullIndex == -1            \* lastHalfCueStepIndex / lastSpokenRestStepIndex = null
NullKey == <<>>            \* lastFinalCueKey = null
NullOverride == 0          \* secondsOverride = null
NoWorkout == [none |-> TRUE]   \* workout = null
NoStep == [type |-> "none"]    \* previousStep = null / undefined

Max(a, b) == IF a >= b THEN a ELSE b

----------------------------------------------------------------------------
(* Helpers                                                                 *)

\* "mm:ss", kept as the pair of its two numbers
formatTime(totalSeconds) ==
    LET s == Max(0, totalSeconds)
    IN  <<s \div 60, s % 60>>

----------------------------------------------------------------------------
(* Build steps                                                             *)

Step(type, label, duration, circuitId) ==
    [type |-> type, label |-> label, durationSeconds |-> duration,
     circuitId |-> circuitId]

\* ExerciseSteps that pushes the rest without looking at its length
ExerciseSteps_ZeroRest(circuitId, w, exercises, i) ==
    LET ex == exercises[i]
        duration == IF ex.secondsOverride # NullOverride
                    THEN ex.secondsOverride ELSE w.workSeconds
        isLastExercise == (i = Len(exercises))
    IN  <<Step("exercise", ex.name, duration, circuitId)>> \o
        (IF ~isLastExercise
         THEN <<Step("rest", "Rest", w.restBetweenExercisesSeconds, circuitId)>>
         ELSE <<>>)

\* ExerciseSteps that gives every exercise workSeconds
ExerciseSteps_IgnoresOverride(circuitId, w, exercises, i) ==
    LET ex == exercises[i]
        isLastExercise == (i = Len(exercises))
    IN  <<Step("exercise", ex.name, w.workSeconds, circuitId)>> \o
        (IF ~isLastExercise /\ w.restBetweenExercisesSeconds > 0
         THEN <<Step("rest", "Rest", w.restBetweenExercisesSeconds, circuitId)>>
         ELSE <<>>)

\* ExerciseSteps that rests after the last exercise of a repetition too
ExerciseSteps_RestAfterLast(circuitId, w, exercises, i) ==
    LET ex == exercises[i]
        duration == IF ex.secondsOverride # NullOverride
                    THEN ex.secondsOverride ELSE w.workSeconds
    IN  <<Step("exercise", ex.name, duration, circuitId)>> \o
        (IF w.restBetweenExercisesSeconds > 0
         THEN <<Step("rest", "Rest", w.restBetweenExercisesSeconds, circuitId)>>
         ELSE <<>>)

\* the steps pushed for exercise i (1-based here) of one repetition
ExerciseSteps(circuitId, w, exercises, i) ==
    LET ex == exercises[i]
        duration == IF ex.secondsOverride # NullOverride
                    THEN ex.secondsOverride ELSE w.workSeconds
        isLastExercise == (i = Len(exercises))
    IN  <<Step("exercise", ex.name, duration, circuitId)>> \o
        (IF ~isLastExercise /\ w.restBetweenExercisesSeconds > 0
         THEN <<Step("rest", "Rest", w.restBetweenExercisesSeconds, circuitId)>>
         ELSE <<>>)

RECURSIVE RepetitionSteps(_, _, _, _)
\* the inner loop of buildStepsForCircuit, from exercise i on
RepetitionSteps(circuitId, w, exercises, i) ==
    IF i > Len(exercises) THEN <<>>
    ELSE ExerciseSteps(circuitId, w, exercises, i) \o
         RepetitionSteps(circuitId, w, exercises, i + 1)

RECURSIVE CircuitLoop_RestAfterLast(_, _, _, _, _)
\* CircuitLoop that rests after the last repetition too
CircuitLoop_RestAfterLast(circuitId, w, exercises, repeats, rep) ==
    IF rep > repeats THEN <<>>
    ELSE RepetitionSteps(circuitId, w, exercises, 1) \o
         (IF w.restBetweenCircuitsSeconds > 0
          THEN <<Step("circuit_rest", "Circuit rest",
                      w.restBetweenCircuitsSeconds, circuitId)>>
          ELSE <<>>) \o
         CircuitLoop_RestAfterLast(circuitId, w, exercises, repeats, rep + 1)

RECURSIVE CircuitLoop(_, _, _, _, _)
\* the outer loop of buildStepsForCircuit, from repetition rep on
CircuitLoop(circuitId, w, exercises, repeats, rep) ==
    IF rep > repeats THEN <<>>
    ELSE LET isLastRepeat == (rep = repeats)
         IN  RepetitionSteps(circuitId, w, exercises, 1) \o
             (IF ~isLastRepeat /\ w.restBetweenCircuitsSeconds > 0
              THEN <<Step("circuit_rest", "Circuit rest",
                          w.restBetweenCircuitsSeconds, circuitId)>>
              ELSE <<>>) \o
             CircuitLoop(circuitId, w, exercises, repeats, rep + 1)

buildStepsForCircuit(circuitId, w, exercises, repeats) ==
    CircuitLoop(circuitId, w, exercises, repeats, 1)

\* buildSteps that pushes the transition rest after circuit B
buildSteps_TransitionLast(w) ==
    buildStepsForCircuit("A", w, w.circuitA.exercises, w.circuitA.repeats) \o
    (IF w.circuitB.enabled
     THEN buildStepsForCircuit("B", w, w.circuitB.exercises,
                               w.circuitB.repeats) \o
          (IF w.transitionRestSeconds > 0
           THEN <<Step("transition_rest", "Transition rest",
                       w.transitionRestSeconds, "B")>>
           ELSE <<>>)
     ELSE <<>>)

\* buildSteps that pushes the transition rest whenever circuit B is on
buildSteps_TransitionAlways(w) ==
    buildStepsForCircuit("A", w, w.circuitA.exercises, w.circuitA.repeats) \o
    (IF w.circuitB.enabled
     THEN <<Step("transition_rest", "Transition rest",
                 w.transitionRestSeconds, "B")>> \o
          buildStepsForCircuit("B", w, w.circuitB.exercises, w.circuitB.repeats)
     ELSE <<>>)

buildSteps(w) ==
    buildStepsForCircuit("A", w, w.circuitA.exercises, w.circuitA.repeats) \o
    (IF w.circuitB.enabled
     THEN (IF w.transitionRestSeconds > 0
           THEN <<Step("transition_rest", "Transition rest",
                       w.transitionRestSeconds, "B")>>
           ELSE <<>>) \o
          buildStepsForCircuit("B", w, w.circuitB.exercises, w.circuitB.repeats)
     ELSE <<>>)

\* The two other copies of the builder in the sources: the first part of
\* app.js (exercises are plain names, every exercise lasts workSeconds) and
\* part_000; both call the exercise step "work"
WorkStep(variant, circuitId, w, ex) ==
    IF variant = "first"
    THEN Step("work", ex, w.workSeconds, circuitId)
    ELSE Step("work", ex.name,
              IF ex.secondsOverride # NullOverride
              THEN ex.secondsOverride ELSE w.workSeconds,
              circuitId)

RECURSIVE VariantCircuitLoop(_, _, _, _, _, _, _)
\* the nested loops of their buildStepsForCircuit, from exercise i
\* (1-based here) of repetition rep on
VariantCircuitLoop(variant, circuitId, w, exercises, repeats, rep, i) ==
    IF rep > repeats THEN <<>>
    ELSE IF i > Len(exercises)
    THEN (IF rep # repeats /\ w.restBetweenCircuitsSeconds > 0
          THEN <<Step("circuit_rest", "Circuit rest",
                      w.restBetweenCircuitsSeconds, circuitId)>>
          ELSE <<>>) \o
         VariantCircuitLoop(variant, circuitId, w, exercises, repeats,
                            rep + 1, 1)
    ELSE <<WorkStep(variant, circuitId, w, exercises[i])>> \o
         (IF i # Len(exercises) /\ w.restBetweenExercisesSeconds > 0
          THEN <<Step("rest", "Rest", w.restBetweenExercisesSeconds,
                      circuitId)>>
          ELSE <<>>) \o
         VariantCircuitLoop(variant, circuitId, w, exercises, repeats,
                            rep, i + 1)

\* buildSteps of the first part of app.js
buildStepsFirst(w) ==
    VariantCircuitLoop("first", "A", w, w.circuitA.exercises,
                       w.circuitA.repeats, 1, 1) \o
    (IF w.circuitB.enabled
     THEN (IF w.restBetweenCircuitsSeconds > 0
           THEN <<Step("circuit_rest", "Rest (before Circuit B)",
                       w.restBetweenCircuitsSeconds, "B")>>
           ELSE <<>>) \o
          VariantCircuitLoop("first", "B", w, w.circuitB.exercises,
                             w.circuitB.repeats, 1, 1)
     ELSE <<>>)

\* buildSteps of part_000
buildStepsPart000(w) ==
    VariantCircuitLoop("part_000", "A", w, w.circuitA.exercises,
                       w.circuitA.repeats, 1, 1) \o
    (IF w.circuitB.enabled
     THEN (IF w.transitionRestSeconds > 0
           THEN <<Step("transition_rest", "Transition rest",
                       w.transitionRestSeconds, "B")>>
           ELSE <<>>) \o
          VariantCircuitLoop("part_000", "B", w, w.circuitB.exercises,
                             w.circuitB.repeats, 1, 1)
     ELSE <<>>)

RECURSIVE SumDurations(_, _)
\* sum of durationSeconds of ss[from..Len(ss)]
SumDurations(ss, from) ==
    IF from > Len(ss) THEN 0
    ELSE ss[from].durationSeconds + SumDurations(ss, from + 1)

\* getTotalDurationSecondsForWorkout that adds up the exercise steps only
getTotalDurationSecondsForWorkout_ExercisesOnly(w) ==
    SumDurations(SelectSeq(buildSteps(w), LAMBDA st : st.type = "exercise"), 1)

getTotalDurationSecondsForWorkout(w) == SumDurations(buildSteps(w), 1)

----------------------------------------------------------------------------
(* The program's globals as one record; handlers map records to records    *)

Globals ==
    [steps |-> steps, workout |-> workout,
     currentStepIndex |-> currentStepIndex,
     secondsRemaining |-> secondsRemaining,
     intervalId |-> intervalId, isRunning |-> isRunning,
     hasStarted |-> hasStarted, isFinished |-> isFinished,
     lastHalfCueStepIndex |-> lastHalfCueStepIndex,
     lastFinalCueKey |-> lastFinalCueKey,
     lastSpokenRestStepIndex |-> lastSpokenRestStepIndex,
     timers |-> timers, dom |-> dom, form |-> form, storage |-> storage,
     effects |-> {}]

\* steps[i] of the source is defined
HasStep(s, i) == i >= 0 /\ i < Len(s.steps)

\* steps[i] of the source
StepAt(s, i) == s.steps[i + 1]

----------------------------------------------------------------------------
(* Views and run controls                                                  *)

showSetup(s) == [s EXCEPT !.dom.view = "setup"]

showRun(s) == [s EXCEPT !.dom.view = "run"]

\* updateRunControls that offers Resume whenever the run stands still
updateRunControls_ResumeWhenStopped(s) ==
    LET canResume == ~s.isRunning /\ ~s.isFinished /\ Len(s.steps) > 0
    IN  [s EXCEPT
          !.dom.runStartBtnHidden =
              (s.hasStarted \/ Len(s.steps) = 0 \/ s.isFinished),
          !.dom.pauseBtnHidden =
              (~s.isRunning \/ Len(s.steps) = 0 \/ s.isFinished),
          !.dom.resumeBtnHidden = ~canResume]

updateRunControls(s) ==
    LET canResume == s.hasStarted /\ ~s.isRunning /\ ~s.isFinished
                     /\ Len(s.steps) > 0
    IN  [s EXCEPT
          !.dom.runStartBtnHidden =
              (s.hasStarted \/ Len(s.steps) = 0 \/ s.isFinished),
          !.dom.pauseBtnHidden =
              (~s.isRunning \/ Len(s.steps) = 0 \/ s.isFinished),
          !.dom.resumeBtnHidden = ~canResume]

----------------------------------------------------------------------------
(* Progress + labels                                                       *)

NoInfo == [circuitId |-> "", round |-> 0, exercise |-> 0,
           exercisesPerRound |-> 0, totalRounds |-> 0]

RECURSIVE NextExerciseFrom(_, _)
\* the loop of getNextExerciseLabel from source index i on; "" stands for null
NextExerciseFrom(s, i) ==
    IF i >= Len(s.steps) THEN ""
    ELSE IF StepAt(s, i).type = "exercise" THEN StepAt(s, i).label
    ELSE NextExerciseFrom(s, i + 1)

getNextExerciseLabel(s, fromIndexExclusive) ==
    NextExerciseFrom(s, fromIndexExclusive + 1)

RECURSIVE CountExercises(_, _, _, _)
\* the counting loop of getProgressForStep over source indices i..stepIndex
CountExercises(s, circuitId, i, stepIndex) ==
    IF i > stepIndex THEN 0
    ELSE (IF StepAt(s, i).circuitId = circuitId /\ StepAt(s, i).type = "exercise"
          THEN 1 ELSE 0) + CountExercises(s, circuitId, i + 1, stepIndex)

\* getProgressForStep that takes the round as count / exercisesPerRound + 1
getProgressForStep_FloorRound(s, stepIndex) ==
    IF s.workout = NoWorkout THEN NoInfo
    ELSE IF ~HasStep(s, stepIndex) THEN NoInfo
    ELSE
      LET circuitId == StepAt(s, stepIndex).circuitId
          circuit == IF circuitId = "B" THEN s.workout.circuitB
                     ELSE s.workout.circuitA
          exercisesPerRound == Len(circuit.exercises)
          exerciseCount == CountExercises(s, circuitId, 0, stepIndex)
      IN  IF exercisesPerRound <= 0 THEN NoInfo
          ELSE [circuitId |-> circuitId,
                round |-> IF exerciseCount = 0 THEN 1
                          ELSE (exerciseCount \div exercisesPerRound) + 1,
                exercise |-> IF exerciseCount = 0 THEN 1
                             ELSE ((exerciseCount - 1) % exercisesPerRound) + 1,
                exercisesPerRound |-> exercisesPerRound,
                totalRounds |-> circuit.repeats]

\* getProgressForStep that answers 1/1 for a circuit without exercises
getProgressForStep_PlaceholderWhenEmpty(s, stepIndex) ==
    IF s.workout = NoWorkout THEN NoInfo
    ELSE IF ~HasStep(s, stepIndex) THEN NoInfo
    ELSE
      LET circuitId == StepAt(s, stepIndex).circuitId
          circuit == IF circuitId = "B" THEN s.workout.circuitB
                     ELSE s.workout.circuitA
          exercisesPerRound == Len(circuit.exercises)
          exerciseCount == CountExercises(s, circuitId, 0, stepIndex)
      IN  IF exercisesPerRound <= 0 \/ exerciseCount = 0
          THEN [circuitId |-> circuitId, round |-> 1, exercise |-> 1,
                exercisesPerRound |-> exercisesPerRound,
                totalRounds |-> circuit.repeats]
          ELSE [circuitId |-> circuitId,
                round |-> (exerciseCount + exercisesPerRound - 1)
                          \div exercisesPerRound,
                exercise |-> ((exerciseCount - 1) % exercisesPerRound) + 1,
                exercisesPerRound |-> exercisesPerRound,
                totalRounds |-> circuit.repeats]

\* getProgressForStep that counts the exercise steps of both circuits
getProgressForStep_AllCircuits(s, stepIndex) ==
    IF s.workout = NoWorkout THEN NoInfo
    ELSE IF ~HasStep(s, stepIndex) THEN NoInfo
    ELSE
      LET circuitId == StepAt(s, stepIndex).circuitId
          circuit == IF circuitId = "B" THEN s.workout.circuitB
                     ELSE s.workout.circuitA
          exercisesPerRound == Len(circuit.exercises)
          exerciseCount == CountExercises(s, "A", 0, stepIndex)
                           + CountExercises(s, "B", 0, stepIndex)
      IN  IF exercisesPerRound <= 0 THEN NoInfo
          ELSE [circuitId |-> circuitId,
                round |-> IF exerciseCount = 0 THEN 1
                          ELSE (exerciseCount + exercisesPerRound - 1)
                               \div exercisesPerRound,
                exercise |-> IF exerciseCount = 0 THEN 1
                             ELSE ((exerciseCount - 1) % exercisesPerRound) + 1,
                exercisesPerRound |-> exercisesPerRound,
                totalRounds |-> circuit.repeats]

\* NoInfo stands for the null result
getProgressForStep(s, stepIndex) ==
    IF s.workout = NoWorkout THEN NoInfo
    ELSE IF ~HasStep(s, stepIndex) THEN NoInfo
    ELSE
      LET circuitId == StepAt(s, stepIndex).circuitId
          circuit == IF circuitId = "B" THEN s.workout.circuitB
                     ELSE s.workout.circuitA
          exercisesPerRound == Len(circuit.exercises)
          totalRounds == circuit.repeats
          exerciseCount == CountExercises(s, circuitId, 0, stepIndex)
      IN  IF exercisesPerRound <= 0 THEN NoInfo
          ELSE IF exerciseCount = 0
          THEN [circuitId |-> circuitId, round |-> 1, exercise |-> 1,
                exercisesPerRound |-> exercisesPerRound,
                totalRounds |-> totalRounds]
          ELSE [circuitId |-> circuitId,
                round |-> (exerciseCount + exercisesPerRound - 1)
                          \div exercisesPerRound,
                exercise |-> ((exerciseCount - 1) % exercisesPerRound) + 1,
                exercisesPerRound |-> exercisesPerRound,
                totalRounds |-> totalRounds]

----------------------------------------------------------------------------
(* Render (run screen)                                                     *)

isRestType(type) ==
    type = "rest" \/ type = "circuit_rest" \/ type = "transition_rest"

\* overallPct that counts finished steps only
overallPct_WholeSteps(s) ==
    LET totalSeconds == SumDurations(s.steps, 1)
        remainingSeconds == SumDurations(s.steps, s.currentStepIndex + 1)
        completedSeconds == Max(0, totalSeconds - remainingSeconds)
    IN  IF totalSeconds > 0
        THEN (IF completedSeconds >= totalSeconds
              THEN [num |-> 100, den |-> 1]
              ELSE [num |-> completedSeconds * 100, den |-> totalSeconds])
        ELSE [num |-> 0, den |-> 1]

\* overallPct as the fraction num / den (a percentage, not reduced)
overallPct(s) ==
    LET totalSeconds == SumDurations(s.steps, 1)
        remainingSeconds == SumDurations(s.steps, s.currentStepIndex + 2)
                            + s.secondsRemaining
        completedSeconds == Max(0, totalSeconds - remainingSeconds)
    IN  IF totalSeconds > 0
        THEN (IF completedSeconds >= totalSeconds
              THEN [num |-> 100, den |-> 1]
              ELSE [num |-> completedSeconds * 100, den |-> totalSeconds])
        ELSE [num |-> 0, den |-> 1]

render(s) ==
    IF Len(s.steps) = 0 THEN s
    ELSE
      LET s1 == [s EXCEPT !.dom.overallProgressFill = overallPct(s)]
      IN  IF s.isFinished
          THEN [s1 EXCEPT
                 !.dom.runViewClasses = {},
                 !.dom.phaseLabel = "Done",
                 !.dom.countdownLabel = 0,
                 !.dom.timeLabel = <<0, 0>>,
                 !.dom.currentLabel = "Workout complete",
                 !.dom.nextLabel = "",
                 !.dom.progressLabel = [text |-> "Finished", info |-> NoInfo]]
          ELSE
            LET step == StepAt(s, s.currentStepIndex)
                isExercise == step.type = "exercise"
                isRest == isRestType(step.type)
                next == getNextExerciseLabel(s, s.currentStepIndex)
                info == getProgressForStep(s, s.currentStepIndex)
                halfPoint == step.durationSeconds \div 2
                isHalf == isExercise /\ s.secondsRemaining <= halfPoint
                          /\ s.secondsRemaining > 3
                isFinal == s.secondsRemaining <= 3
            IN  updateRunControls(
                  [s1 EXCEPT
                    !.dom.phaseLabel = IF isExercise THEN "Exercise" ELSE "Rest",
                    !.dom.countdownLabel =
                        IF s.secondsRemaining <= 3 /\ s.secondsRemaining >= 1
                        THEN s.secondsRemaining ELSE 0,
                    !.dom.timeLabel = formatTime(s.secondsRemaining),
                    !.dom.currentLabel =
                        IF isExercise THEN step.label
                        ELSE IF step.type = "transition_rest"
                        THEN "Transition rest" ELSE "Rest",
                    !.dom.nextLabel = IF next # "" THEN next ELSE "-",
                    !.dom.progressLabel =
                        IF info # NoInfo THEN [text |-> "info", info |-> info]
                        ELSE [text |-> "", info |-> NoInfo],
                    !.dom.runViewClasses =
                        (IF isExercise THEN {"runView-exercise"} ELSE {}) \cup
                        (IF isRest THEN {"runView-rest"} ELSE {}) \cup
                        (IF isHalf /\ ~isFinal THEN {"runView-half"} ELSE {}) \cup
                        (IF isFinal THEN {"runView-final"} ELSE {})])

----------------------------------------------------------------------------
(* Timer engine                                                            *)

\* the handle setInterval returns: one that no registered timer has
NewTimerId(s) ==
    CHOOSE i \in 1..(Cardinality(s.timers) + 1) : i \notin s.timers

\* stopTimer that also marks the run as started
stopTimer_MarksStarted(s) ==
    LET s1 == IF s.intervalId # NullId
              THEN [s EXCEPT !.timers = @ \ {s.intervalId},
                             !.intervalId = NullId]
              ELSE s
    IN  updateRunControls([s1 EXCEPT !.isRunning = FALSE,
                                     !.hasStarted = TRUE])

\* stopTimer that forgets the handle without clearInterval
stopTimer_NoClear(s) ==
    LET s1 == IF s.intervalId # NullId
              THEN [s EXCEPT !.intervalId = NullId]
              ELSE s
    IN  updateRunControls([s1 EXCEPT !.isRunning = FALSE])

\* stopTimer that gives back a second of the current step
stopTimer_RewindsSecond(s) ==
    LET s1 == IF s.intervalId # NullId
              THEN [s EXCEPT !.timers = @ \ {s.intervalId},
                             !.intervalId = NullId]
              ELSE s
        s2 == IF /\ HasStep(s1, s1.currentStepIndex)
                 /\ s1.secondsRemaining
                      < StepAt(s1, s1.currentStepIndex).durationSeconds
              THEN [s1 EXCEPT !.secondsRemaining = @ + 1]
              ELSE s1
    IN  updateRunControls([s2 EXCEPT !.isRunning = FALSE])

\* stopTimer that only lowers the flag: the interval stays registered
stopTimer_OnlyFlag(s) == updateRunControls([s EXCEPT !.isRunning = FALSE])

stopTimer(s) ==
    LET s1 == IF s.intervalId # NullId
              THEN [s EXCEPT !.timers = @ \ {s.intervalId},
                             !.intervalId = NullId]
              ELSE s
    IN  updateRunControls([s1 EXCEPT !.isRunning = FALSE])

\* startTimer without the isFinished guard
startTimer_NoFinishedGuard(s) ==
    IF s.isRunning \/ Len(s.steps) = 0 THEN s
    ELSE
      LET s1 == updateRunControls([s EXCEPT !.isRunning = TRUE,
                                            !.hasStarted = TRUE])
          id == NewTimerId(s1)
      IN  [s1 EXCEPT !.intervalId = id, !.timers = @ \cup {id}]

\* startTimer without the isRunning guard
startTimer_NoRunningGuard(s) ==
    IF Len(s.steps) = 0 \/ s.isFinished THEN s
    ELSE
      LET s1 == updateRunControls([s EXCEPT !.isRunning = TRUE,
                                            !.hasStarted = TRUE])
          id == NewTimerId(s1)
      IN  [s1 EXCEPT !.intervalId = id, !.timers = @ \cup {id}]

\* startTimer that begins the current step anew
startTimer_RestartsStep(s) ==
    IF s.isRunning \/ Len(s.steps) = 0 \/ s.isFinished THEN s
    ELSE
      LET s1 == updateRunControls([s EXCEPT !.isRunning = TRUE,
                                            !.hasStarted = TRUE])
          id == NewTimerId(s1)
      IN  [s1 EXCEPT !.intervalId = id, !.timers = @ \cup {id},
                     !.secondsRemaining =
                         StepAt(s, s.currentStepIndex).durationSeconds]

startTimer(s) ==
    IF s.isRunning \/ Len(s.steps) = 0 \/ s.isFinished THEN s
    ELSE
      LET s1 == updateRunControls([s EXCEPT !.isRunning = TRUE,
                                            !.hasStarted = TRUE])
          id == NewTimerId(s1)
      IN  [s1 EXCEPT !.intervalId = id, !.timers = @ \cup {id}]

\* setStep that speaks after every exercise, whatever the new step is
setStep_SpeaksAfterExercise(s, index, previousStep) ==
    LET s1 == [s EXCEPT !.currentStepIndex = index,
                        !.secondsRemaining = s.steps[index + 1].durationSeconds]
        wasExercise == previousStep.type = "exercise"
        s2 == IF wasExercise
                 /\ s1.lastSpokenRestStepIndex # s1.currentStepIndex
              THEN [s1 EXCEPT !.lastSpokenRestStepIndex = s1.currentStepIndex,
                              !.effects = @ \cup {"speakRest"}]
              ELSE s1
    IN  render(s2)

setStep(s, index, previousStep) ==
    LET s1 == [s EXCEPT !.currentStepIndex = index,
                        !.secondsRemaining = s.steps[index + 1].durationSeconds]
        step == StepAt(s1, index)
        isNowRest == isRestType(step.type)
        wasExercise == previousStep.type = "exercise"
        s2 == IF isNowRest /\ wasExercise
                 /\ s1.lastSpokenRestStepIndex # s1.currentStepIndex
              THEN [s1 EXCEPT !.lastSpokenRestStepIndex = s1.currentStepIndex,
                              !.effects = @ \cup {"speakRest"}]
              ELSE s1
    IN  render(s2)

\* goToNextStep that moves the index past the last step when finishing
goToNextStep_IndexPastEnd(s, autoContinue) ==
    LET prev == IF HasStep(s, s.currentStepIndex)
                THEN StepAt(s, s.currentStepIndex) ELSE NoStep
        s1 == stopTimer(s)
        nextIndex == s1.currentStepIndex + 1
    IN  IF nextIndex >= Len(s1.steps)
        THEN updateRunControls(
               render([s1 EXCEPT !.isFinished = TRUE,
                                 !.currentStepIndex = nextIndex,
                                 !.secondsRemaining = 0]))
        ELSE
          LET s2 == setStep([s1 EXCEPT !.isFinished = FALSE], nextIndex, prev)
          IN  IF autoContinue THEN startTimer(s2) ELSE updateRunControls(s2)

\* goToNextStep that does not restart the timer on a rest
goToNextStep_PausesOnRest(s, autoContinue) ==
    LET prev == IF HasStep(s, s.currentStepIndex)
                THEN StepAt(s, s.currentStepIndex) ELSE NoStep
        s1 == stopTimer(s)
        nextIndex == s1.currentStepIndex + 1
    IN  IF nextIndex >= Len(s1.steps)
        THEN updateRunControls(
               render([s1 EXCEPT !.isFinished = TRUE,
                                 !.secondsRemaining = 0]))
        ELSE
          LET s2 == setStep([s1 EXCEPT !.isFinished = FALSE], nextIndex, prev)
          IN  IF autoContinue /\ StepAt(s2, nextIndex).type = "exercise"
              THEN startTimer(s2) ELSE updateRunControls(s2)

\* goToNextStep that never restarts the timer
goToNextStep_NeverContinues(s, autoContinue) ==
    LET prev == IF HasStep(s, s.currentStepIndex)
                THEN StepAt(s, s.currentStepIndex) ELSE NoStep
        s1 == stopTimer(s)
        nextIndex == s1.currentStepIndex + 1
    IN  IF nextIndex >= Len(s1.steps)
        THEN updateRunControls(
               render([s1 EXCEPT !.isFinished = TRUE,
                                 !.secondsRemaining = 0]))
        ELSE updateRunControls(
               setStep([s1 EXCEPT !.isFinished = FALSE], nextIndex, prev))

\* goToNextStep without the leading stopTimer()
goToNextStep_NoStop(s, autoContinue) ==
    LET prev == IF HasStep(s, s.currentStepIndex)
                THEN StepAt(s, s.currentStepIndex) ELSE NoStep
        nextIndex == s.currentStepIndex + 1
    IN  IF nextIndex >= Len(s.steps)
        THEN updateRunControls(
               render([s EXCEPT !.isFinished = TRUE,
                                !.secondsRemaining = 0]))
        ELSE
          LET s2 == setStep([s EXCEPT !.isFinished = FALSE], nextIndex, prev)
          IN  IF autoContinue THEN startTimer(s2) ELSE updateRunControls(s2)

\* goToNextStep that leaves secondsRemaining alone when it finishes
goToNextStep_KeepsSeconds(s, autoContinue) ==
    LET prev == IF HasStep(s, s.currentStepIndex)
                THEN StepAt(s, s.currentStepIndex) ELSE NoStep
        s1 == stopTimer(s)
        nextIndex == s1.currentStepIndex + 1
    IN  IF nextIndex >= Len(s1.steps)
        THEN updateRunControls(render([s1 EXCEPT !.isFinished = TRUE]))
        ELSE
          LET s2 == setStep([s1 EXCEPT !.isFinished = FALSE], nextIndex, prev)
          IN  IF autoContinue THEN startTimer(s2) ELSE updateRunControls(s2)

goToNextStep(s, autoContinue) ==
    LET prev == IF HasStep(s, s.currentStepIndex)
                THEN StepAt(s, s.currentStepIndex) ELSE NoStep
        s1 == stopTimer(s)
        nextIndex == s1.currentStepIndex + 1
    IN  IF nextIndex >= Len(s1.steps)
        THEN updateRunControls(
               render([s1 EXCEPT !.isFinished = TRUE,
                                 !.secondsRemaining = 0]))
        ELSE
          LET s2 == setStep([s1 EXCEPT !.isFinished = FALSE], nextIndex, prev)
          IN  IF autoContinue THEN startTimer(s2) ELSE updateRunControls(s2)

\* skipStep that always auto-continues
skipStep_AlwaysContinues(s) ==
    IF Len(s.steps) = 0 THEN s ELSE goToNextStep(s, TRUE)

skipStep(s) ==
    IF Len(s.steps) = 0 THEN s ELSE goToNextStep(s, s.isRunning)

\* resetWorkout that leaves the cue trackers as they are
resetWorkout_KeepsTrackers(s) ==
    LET s1 == stopTimer(s)
        s2 == IF Len(s1.steps) > 0 THEN setStep(s1, 0, NoStep) ELSE s1
    IN  updateRunControls([s2 EXCEPT !.hasStarted = FALSE,
                                     !.isFinished = FALSE])

\* resetWorkout that forgets to clear isFinished
resetWorkout_KeepsFinished(s) ==
    LET s1 == stopTimer(s)
        s2 == IF Len(s1.steps) > 0
              THEN setStep([s1 EXCEPT !.lastHalfCueStepIndex = NullIndex,
                                      !.lastFinalCueKey = NullKey,
                                      !.lastSpokenRestStepIndex = NullIndex],
                           0, NoStep)
              ELSE s1
    IN  updateRunControls([s2 EXCEPT !.hasStarted = FALSE])

resetWorkout(s) ==
    LET s1 == stopTimer(s)
        s2 == IF Len(s1.steps) > 0
              THEN setStep([s1 EXCEPT !.lastHalfCueStepIndex = NullIndex,
                                      !.lastFinalCueKey = NullKey,
                                      !.lastSpokenRestStepIndex = NullIndex],
                           0, NoStep)
              ELSE s1
    IN  updateRunControls([s2 EXCEPT !.hasStarted = FALSE,
                                     !.isFinished = FALSE])

\* the interval callback with the halfway cue on steps of every type
intervalCallback_HalfAnyStep(s) ==
    LET s1 == [s EXCEPT !.secondsRemaining = @ - 1]
        hasStep == HasStep(s1, s1.currentStepIndex)
        step == IF hasStep THEN StepAt(s1, s1.currentStepIndex) ELSE NoStep
        halfPoint == IF hasStep THEN step.durationSeconds \div 2 ELSE 0
        s2 == IF hasStep
                 /\ s1.secondsRemaining = halfPoint
                 /\ s1.lastHalfCueStepIndex # s1.currentStepIndex
              THEN [s1 EXCEPT !.lastHalfCueStepIndex = s1.currentStepIndex,
                              !.effects = @ \cup {"cueHalf"}]
              ELSE s1
        key == <<s2.currentStepIndex, s2.secondsRemaining>>
        s3 == IF hasStep /\ s2.secondsRemaining <= 3 /\ s2.secondsRemaining >= 1
                 /\ s2.lastFinalCueKey # key
              THEN [s2 EXCEPT !.lastFinalCueKey = key,
                              !.effects = @ \cup {"cueFinalTick"}]
              ELSE s2
    IN  IF s3.secondsRemaining <= 0 THEN goToNextStep(s3, TRUE) ELSE render(s3)

\* interval callback that moves on only below zero
intervalCallback_AdvancesBelowZero(s) ==
    LET s1 == [s EXCEPT !.secondsRemaining = @ - 1]
        hasStep == HasStep(s1, s1.currentStepIndex)
        step == IF hasStep THEN StepAt(s1, s1.currentStepIndex) ELSE NoStep
        halfPoint == IF step.type = "exercise"
                     THEN step.durationSeconds \div 2 ELSE 0
        s2 == IF hasStep /\ step.type = "exercise"
                 /\ s1.secondsRemaining = halfPoint
                 /\ s1.lastHalfCueStepIndex # s1.currentStepIndex
              THEN [s1 EXCEPT !.lastHalfCueStepIndex = s1.currentStepIndex,
                              !.effects = @ \cup {"cueHalf"}]
              ELSE s1
        key == <<s2.currentStepIndex, s2.secondsRemaining>>
        s3 == IF hasStep /\ s2.secondsRemaining <= 3 /\ s2.secondsRemaining >= 1
                 /\ s2.lastFinalCueKey # key
              THEN [s2 EXCEPT !.lastFinalCueKey = key,
                              !.effects = @ \cup {"cueFinalTick"}]
              ELSE s2
    IN  IF s3.secondsRemaining < 0 THEN goToNextStep(s3, TRUE) ELSE render(s3)

\* the function startTimer hands to setInterval
intervalCallback(s) ==
    LET s1 == [s EXCEPT !.secondsRemaining = @ - 1]
        hasStep == HasStep(s1, s1.currentStepIndex)
        step == IF hasStep THEN StepAt(s1, s1.currentStepIndex) ELSE NoStep
        halfPoint == IF step.type = "exercise"
                     THEN step.durationSeconds \div 2 ELSE 0
        s2 == IF hasStep /\ step.type = "exercise"
                 /\ s1.secondsRemaining = halfPoint
                 /\ s1.lastHalfCueStepIndex # s1.currentStepIndex
              THEN [s1 EXCEPT !.lastHalfCueStepIndex = s1.currentStepIndex,
                              !.effects = @ \cup {"cueHalf"}]
              ELSE s1
        key == <<s2.currentStepIndex, s2.secondsRemaining>>
        s3 == IF hasStep /\ s2.secondsRemaining <= 3 /\ s2.secondsRemaining >= 1
                 /\ s2.lastFinalCueKey # key
              THEN [s2 EXCEPT !.lastFinalCueKey = key,
                              !.effects = @ \cup {"cueFinalTick"}]
              ELSE s2
    IN  IF s3.secondsRemaining <= 0 THEN goToNextStep(s3, TRUE) ELSE render(s3)

----------------------------------------------------------------------------
(* Build workout from UI                                                   *)

\* the result of Number.parseInt(text, 10): NaN, or the integer n
NaN == [nan |-> TRUE, n |-> 0]
Num(n) == [nan |-> FALSE, n |-> n]

clampInt_IgnoresMin(value, min, fallback) ==
    IF value.nan THEN fallback ELSE value.n

clampInt(value, min, fallback) ==
    IF value.nan THEN fallback ELSE Max(min, value.n)

RECURSIVE ExercisesFromRows(_, _)
\* the loop of getExercisesFromList over rows[i..]; a row is the trimmed
\* name and the parse of its seconds field (blank parses to NaN)
ExercisesFromRows(rows, i) ==
    IF i > Len(rows) THEN <<>>
    ELSE
      LET row == rows[i]
          secondsOverride == IF ~row.seconds.nan /\ row.seconds.n > 0
                             THEN row.seconds.n ELSE NullOverride
      IN  (IF row.name = "" THEN <<>>
           ELSE <<[name |-> row.name, secondsOverride |-> secondsOverride]>>)
          \o ExercisesFromRows(rows, i + 1)

getExercisesFromList(rows) == ExercisesFromRows(rows, 1)

DefaultWorkSeconds == 45
DefaultRestBetweenExercises == 15
DefaultRestBetweenCircuits == 60
DefaultTransitionRest == 60
DefaultRepeats == 2

getWorkoutFromInputs(ui) ==
    [workSeconds |-> clampInt(ui.workSeconds, 1, DefaultWorkSeconds),
     restBetweenExercisesSeconds |->
         clampInt(ui.restBetweenExercisesSeconds, 0, DefaultRestBetweenExercises),
     restBetweenCircuitsSeconds |->
         clampInt(ui.restBetweenCircuitsSeconds, 0, DefaultRestBetweenCircuits),
     transitionRestSeconds |->
         clampInt(ui.transitionRestSeconds, 0, DefaultTransitionRest),
     circuitA |-> [repeats |-> clampInt(ui.circuitRepeats, 1, DefaultRepeats),
                   exercises |-> getExercisesFromList(ui.exerciseListA)],
     circuitB |-> [enabled |-> ui.circuitBPressed,
                   repeats |-> clampInt(ui.circuitBRepeats, 1, DefaultRepeats),
                   exercises |-> getExercisesFromList(ui.exerciseListB)]]

----------------------------------------------------------------------------
(* Events                                                                  *)

\* startBtn click handler that does not look at circuit B
startBtnClick_NoCircuitBCheck(s, ui) ==
    LET nextWorkout == getWorkoutFromInputs(ui)
    IN  IF Len(nextWorkout.circuitA.exercises) = 0
        THEN [s EXCEPT !.effects = @ \cup {"alert"}]
        ELSE
          LET s1 == [s EXCEPT !.workout = nextWorkout,
                              !.steps = buildSteps(nextWorkout),
                              !.effects = @ \cup {"buildSteps"},
                              !.hasStarted = FALSE,
                              !.isFinished = FALSE,
                              !.lastHalfCueStepIndex = NullIndex,
                              !.lastFinalCueKey = NullKey,
                              !.lastSpokenRestStepIndex = NullIndex]
          IN  render(stopTimer(setStep(showRun(s1), 0, NoStep)))

\* startBtn click handler that leaves a running timer alone
startBtnClick_NoStop(s, ui) ==
    LET nextWorkout == getWorkoutFromInputs(ui)
    IN  IF Len(nextWorkout.circuitA.exercises) = 0
        THEN [s EXCEPT !.effects = @ \cup {"alert"}]
        ELSE IF nextWorkout.circuitB.enabled
                /\ Len(nextWorkout.circuitB.exercises) = 0
        THEN [s EXCEPT !.effects = @ \cup {"alert"}]
        ELSE
          LET s1 == [s EXCEPT !.workout = nextWorkout,
                              !.steps = buildSteps(nextWorkout),
                              !.effects = @ \cup {"buildSteps"},
                              !.hasStarted = FALSE,
                              !.isFinished = FALSE,
                              !.lastHalfCueStepIndex = NullIndex,
                              !.lastFinalCueKey = NullKey,
                              !.lastSpokenRestStepIndex = NullIndex]
          IN  render(setStep(showRun(s1), 0, NoStep))

\* startBtn click handler (setup screen); the call of buildSteps is noted
\* among the effects
startBtnClick(s, ui) ==
    LET nextWorkout == getWorkoutFromInputs(ui)
    IN  IF Len(nextWorkout.circuitA.exercises) = 0
        THEN [s EXCEPT !.effects = @ \cup {"alert"}]
        ELSE IF nextWorkout.circuitB.enabled
                /\ Len(nextWorkout.circuitB.exercises) = 0
        THEN [s EXCEPT !.effects = @ \cup {"alert"}]
        ELSE
          LET s1 == [s EXCEPT !.workout = nextWorkout,
                              !.steps = buildSteps(nextWorkout),
                              !.effects = @ \cup {"buildSteps"},
                              !.hasStarted = FALSE,
                              !.isFinished = FALSE,
                              !.lastHalfCueStepIndex = NullIndex,
                              !.lastFinalCueKey = NullKey,
                              !.lastSpokenRestStepIndex = NullIndex]
          IN  render(stopTimer(setStep(showRun(s1), 0, NoStep)))

\* backToSetupBtn click handler that leaves the timer alone
backToSetupClick_NoStop(s) == showSetup(s)

\* backToSetupBtn click handler
backToSetupClick(s) == showSetup(stopTimer(s))

---------------------------------------------------------------------------------------------------------------------------------------------------
(* The inputs of the model: what the setup form holds when Start is        *)
(* clicked.  The exercise rows are the first rows of a roster whose even   *)
(* rows carry a one-second override; the form is filled in one of four     *)
(* ways (Modes).                                                           *)

Names == <<"Plank", "Squats", "Lunges", "Crunches">>

RosterRows(n) ==
    [i \in 1..n |-> [name |-> Names[i],
                     seconds |-> IF i % 2 = 0 THEN Num(1) ELSE NaN]]

\* "plain": no rests, circuit B off;  "rests": all rests set, circuit B off;
\* "circuitB": all rests set, circuit B on with one exercise;
\* "emptyB": circuit B on without exercises
Modes == {"plain", "rests", "circuitB", "emptyB"}

FormInput(mode, na, ra) ==
    LET r == IF mode = "plain" THEN 0 ELSE MaxRest
    IN  [workSeconds |-> Num(MaxWork),
         restBetweenExercisesSeconds |-> Num(r),
         restBetweenCircuitsSeconds |-> Num(r),
         transitionRestSeconds |-> Num(r),
         circuitRepeats |-> Num(ra),
         circuitBRepeats |-> Num(1),
         circuitBPressed |-> (mode \in {"circuitB", "emptyB"}),
         exerciseListA |-> RosterRows(na),
         exerciseListB |-> RosterRows(IF mode = "emptyB" THEN 0 ELSE 1)]

RepeatChoices == {1, 2}

\* the forms Start is clicked with: every acceptable filling, a form without
\* exercises and a form whose circuit B is on but empty
RunInputs ==
    { FormInput(mode, na, ra) :
        mode \in Modes \ {"emptyB"}, na \in 1..MaxExercises,
        ra \in RepeatChoices }
    \cup { FormInput("rests", 0, 1), FormInput("emptyB", 1, 1) }

----------------------------------------------------------------------------
(* The state machine                                                       *)

\* the form is not followed between events: each Start click of Spec comes
\* with the form it reads (RunInputs)
NoForm == [none |-> TRUE]

\* the ticks are not counted (any more)
NoCount == -1

\* the cues of step 0 are not followed over the resets
NoRerunLog == [tracked |-> FALSE, now |-> {}, before |-> {}]

\* the presets key of localStorage is not followed
NoStorage == [kind |-> "untracked"]

\* totalDurationLabel as the markup has it, before its first update
MarkupLabel == <<"markup">>

InitialDom(a, b, c) ==
    [view |-> "setup", totalDurationLabel |-> MarkupLabel,
     runStartBtnHidden |-> a, pauseBtnHidden |-> b, resumeBtnHidden |-> c,
     phaseLabel |-> "", countdownLabel |-> 0, timeLabel |-> <<0, 0>>,
     currentLabel |-> "", nextLabel |-> "",
     progressLabel |-> [text |-> "", info |-> NoInfo],
     overallProgressFill |-> [num |-> 0, den |-> 1],
     runViewClasses |-> {},
     presetOptions |-> <<>>, presetValue |-> 0]

\* the module-level declarations
InitGlobals ==
    /\ steps = <<>>
    /\ workout = NoWorkout
    /\ currentStepIndex = 0
    /\ secondsRemaining = 0
    /\ intervalId = NullId
    /\ isRunning = FALSE
    /\ hasStarted = FALSE
    /\ isFinished = FALSE
    /\ lastHalfCueStepIndex = NullIndex
    /\ lastFinalCueKey = NullKey
    /\ lastSpokenRestStepIndex = NullIndex
    /\ timers = {}
    /\ effects = {}
    /\ cueLog = {}
    /\ lastOp = "init"
    /\ prevPhase = "NotStarted"

\* the module-level declarations, then init(); the page's markup decides
\* which run buttons start hidden
Init ==
    /\ InitGlobals
    /\ \E a, b, c \in BOOLEAN : dom = InitialDom(a, b, c)
    /\ form = NoForm
    /\ storage = NoStorage
    /\ tickCount = NoCount
    /\ rerunLog = NoRerunLog

\* RunState.phase of the specification, read off the three flags
Phase ==
    IF isFinished THEN "Finished"
    ELSE IF isRunning THEN "Running"
    ELSE IF hasStarted THEN "Paused"
    ELSE "NotStarted"

\* the cues the event that led to record s has sounded, each with the step
\* index (and, for the final countdown, the second) its one-shot tracker
\* was set to
CuesOf(s) ==
    (IF "cueHalf" \in s.effects
     THEN {<<"half", s.lastHalfCueStepIndex>>} ELSE {}) \cup
    (IF "cueFinalTick" \in s.effects
     THEN {<<"final", s.lastFinalCueKey[1], s.lastFinalCueKey[2]>>} ELSE {})

\* the log starts anew with a reset, an accepted Start and a new step
NextCueLog(s, op) ==
    IF \/ op = "reset"
       \/ op = "newWorkout" /\ "alert" \notin s.effects
       \/ s.currentStepIndex # currentStepIndex
    THEN {}
    ELSE cueLog \cup CuesOf(s)

\* the count starts at 0 with an accepted Start of the setup screen, grows
\* with each tick, stays under Start of the run screen and is given up
\* with any other event; a count given up at the outset is never taken up
NextTickCount(s, op) ==
    IF tickCount = NoCount THEN NoCount
    ELSE IF op = "newWorkout"
         THEN (IF "alert" \in s.effects THEN tickCount ELSE 0)
    ELSE IF op = "tick" THEN tickCount + 1
    ELSE IF op = "start" THEN tickCount
    ELSE NoCount

\* where followed: a reset moves the cues sounded on step 0 since the last
\* reset to those sounded before it, an accepted Start of the setup screen
\* forgets both, a tick adds the cues it sounds on step 0
NextRerunLog(s, op) ==
    IF ~rerunLog.tracked THEN rerunLog
    ELSE IF op = "reset"
         THEN [rerunLog EXCEPT !.now = {}, !.before = @ \cup rerunLog.now]
    ELSE IF op = "newWorkout" /\ "alert" \notin s.effects
         THEN [rerunLog EXCEPT !.now = {}, !.before = {}]
    ELSE [rerunLog EXCEPT !.now = @ \cup {cue \in CuesOf(s) : cue[2] = 0}]

\* the globals become those of record s after the event op
Becomes(s, op) ==
    /\ steps' = s.steps
    /\ workout' = s.workout
    /\ currentStepIndex' = s.currentStepIndex
    /\ secondsRemaining' = s.secondsRemaining
    /\ intervalId' = s.intervalId
    /\ isRunning' = s.isRunning
    /\ hasStarted' = s.hasStarted
    /\ isFinished' = s.isFinished
    /\ lastHalfCueStepIndex' = s.lastHalfCueStepIndex
    /\ lastFinalCueKey' = s.lastFinalCueKey
    /\ lastSpokenRestStepIndex' = s.lastSpokenRestStepIndex
    /\ timers' = s.timers
    /\ dom' = s.dom
    /\ form' = s.form
    /\ storage' = s.storage
    /\ effects' = s.effects
    /\ cueLog' = NextCueLog(s, op)
    /\ tickCount' = NextTickCount(s, op)
    /\ rerunLog' = NextRerunLog(s, op)
    /\ lastOp' = op
    /\ prevPhase' = Phase

StartBtnClick ==
    \E ui \in RunInputs :
        \E s \in {startBtnClick(Globals, ui)} : Becomes(s, "newWorkout")

RunStartBtnClick == \E s \in {startTimer(Globals)} : Becomes(s, "start")

PauseBtnClick == \E s \in {stopTimer(Globals)} : Becomes(s, "pause")

ResumeBtnClick == \E s \in {startTimer(Globals)} : Becomes(s, "resume")

SkipBtnClick == \E s \in {skipStep(Globals)} : Becomes(s, "skip")

ResetBtnClick == \E s \in {resetWorkout(Globals)} : Becomes(s, "reset")

BackToSetupBtnClick ==
    \E s \in {backToSetupClick(Globals)} : Becomes(s, "backToSetup")

\* a registered interval timer fires
Tick ==
    \E t \in timers :
        \E s \in {intervalCallback(Globals)} : Becomes(s, "tick")

Next ==
    \/ StartBtnClick
    \/ RunStartBtnClick
    \/ PauseBtnClick
    \/ ResumeBtnClick
    \/ SkipBtnClick
    \/ ResetBtnClick
    \/ BackToSetupBtnClick
    \/ Tick

Spec == Init /\ [][Next]_vars

----------------------------------------------------------------------------
(* A run left to its timer: no pause, reset or way back to the setup       *)
(* screen, and the ticks counted                                           *)

TickInit ==
    /\ InitGlobals
    /\ \E a, b, c \in BOOLEAN : dom = InitialDom(a, b, c)
    /\ form = NoForm
    /\ storage = NoStorage
    /\ tickCount = 0
    /\ rerunLog = NoRerunLog

\* the Start button of the setup screen, clicked where it is shown
ViewStartBtnClick ==
    /\ dom.view = "setup"
    /\ \E ui \in RunInputs :
          \E s \in {startBtnClick(Globals, ui)} : Becomes(s, "newWorkout")

TickNext ==
    \/ ViewStartBtnClick
    \/ RunStartBtnClick
    \/ SkipBtnClick
    \/ Tick

\* setInterval keeps calling its callback until clearInterval: weak
\* fairness of Tick, WF_vars(Tick), with ENABLED <<Tick>>_vars written out
\* as the guard of Tick (a timer is registered)
TickFairness == []<>(timers = {}) \/ []<><<Tick>>_vars

TickSpec == TickInit /\ [][TickNext]_vars /\ TickFairness

----------------------------------------------------------------------------
(* A workout counted down, reset and counted down again, the cues of step  *)
(* 0 followed over the resets                                              *)

RerunInit ==
    /\ InitGlobals
    /\ \E a, b, c \in BOOLEAN : dom = InitialDom(a, b, c)
    /\ form = NoForm
    /\ storage = NoStorage
    /\ tickCount = NoCount
    /\ rerunLog = [tracked |-> TRUE, now |-> {}, before |-> {}]

RerunNext ==
    \/ ViewStartBtnClick
    \/ RunStartBtnClick
    \/ PauseBtnClick
    \/ ResetBtnClick
    \/ Tick

RerunSpec == RerunInit /\ [][RerunNext]_vars

----------------------------------------------------------------------------
(* The setup screen                                                        *)

\* totalDurationLabel showing the dash
DashLabel == <<>>

\* `${minutes}m ${seconds}s`, kept as the pair of its two numbers
DurationLabel(total) == <<total \div 60, total % 60>>

updateTotalDurationLabel(s) ==
    LET w == getWorkoutFromInputs(s.form)
    IN  IF Len(w.circuitA.exercises) = 0
        THEN [s EXCEPT !.dom.totalDurationLabel = DashLabel]
        ELSE IF w.circuitB.enabled /\ Len(w.circuitB.exercises) = 0
        THEN [s EXCEPT !.dom.totalDurationLabel = DashLabel]
        ELSE LET total == getTotalDurationSecondsForWorkout(w)
             IN  [s EXCEPT !.dom.totalDurationLabel = DurationLabel(total),
                           !.effects = @ \cup {"buildSteps"}]

\* of setCircuitBEnabled, the aria-pressed attribute the form is read by
setCircuitBEnabled(s, enabled) == [s EXCEPT !.form.circuitBPressed = enabled]

\* toggleCircuitBBtn click: the toggle, then the label listener
toggleCircuitBClick(s) ==
    updateTotalDurationLabel(setCircuitBEnabled(s, ~s.form.circuitBPressed))

\* the user types text into workSecondsInput: its input listener
workSecondsInput(s, text) ==
    updateTotalDurationLabel([s EXCEPT !.form.workSeconds = text])

MaxRepeats == 3     \* the largest repeat count typed into the form

\* what the number fields are filled with: nothing (parses to NaN), a
\* number below the field's minimum, a number above it (the transition
\* rest and the repeats of circuit B: the last two)
WorkTexts == {NaN, Num(0), Num(MaxWork)}
RestTexts == {NaN, Num(-1), Num(MaxRest)}
TransitionTexts == {Num(-1), Num(MaxRest)}
RepeatTexts == {NaN, Num(0), Num(MaxRepeats)}
BRepeatTexts == {Num(0), Num(MaxRepeats)}

\* the first n rows of the roster with no override in force: the seconds
\* field of a row is blank, or holds 0 on the even rows
UnsetRows(n) ==
    [i \in 1..n |-> [name |-> Names[i],
                     seconds |-> IF i % 2 = 0 THEN Num(0) ELSE NaN]]

RowChoices(max) ==
    {RosterRows(n) : n \in 0..max} \cup {UnsetRows(n) : n \in 0..max}

\* the forms of the setup screen
SetupForms ==
    { [workSeconds |-> w,
       restBetweenExercisesSeconds |-> re,
       restBetweenCircuitsSeconds |-> rc,
       transitionRestSeconds |-> t,
       circuitRepeats |-> ra,
       circuitBRepeats |-> rb,
       circuitBPressed |-> b,
       exerciseListA |-> rowsA,
       exerciseListB |-> RosterRows(nb)] :
        w \in WorkTexts, re \in RestTexts, rc \in RestTexts,
        t \in TransitionTexts, ra \in RepeatTexts, rb \in BRepeatTexts,
        b \in BOOLEAN, rowsA \in RowChoices(MaxExercises),
        nb \in {0, MaxExercises} }

\* the page after load with the form filled in: the label has had its
\* initial update, nothing was started
SetupInit ==
    /\ InitGlobals
    /\ form \in SetupForms
    /\ storage = NoStorage
    /\ tickCount = NoCount
    /\ rerunLog = NoRerunLog
    /\ \E a, b, c \in BOOLEAN :
          dom = updateTotalDurationLabel(
                    [form |-> form, dom |-> InitialDom(a, b, c),
                     effects |-> {}]).dom

ToggleCircuitBBtnClick ==
    /\ dom.view = "setup"
    /\ \E s \in {toggleCircuitBClick(Globals)} : Becomes(s, "toggleB")

WorkSecondsInput ==
    /\ dom.view = "setup"
    /\ \E text \in WorkTexts :
          \E s \in {workSecondsInput(Globals, text)} : Becomes(s, "input")

\* Start clicked on the setup screen, with the form as it is
SetupStartBtnClick ==
    /\ dom.view = "setup"
    /\ \E s \in {startBtnClick(Globals, form)} : Becomes(s, "newWorkout")

SetupNext ==
    \/ ToggleCircuitBBtnClick
    \/ WorkSecondsInput
    \/ SetupStartBtnClick

SetupSpec == SetupInit /\ [][SetupNext]_vars

-----------------------------------------------------------------------------
(* Presets in localStorage                                                 *)

MaxPresets == 2     \* a stored array has up to MaxPresets entries

\* presetSelect.value: "" (the None option), the string "undefined", or a
\* preset id (a positive number here)
NoneValue == 0
UndefinedText == -1

\* the value undefined, which is no string
Undefined == -2

\* entries of a stored array: a preset object, null, a number
Preset(i) == [kind |-> "preset", id |-> i]
NullEntry == [kind |-> "null"]
NumberEntry == [kind |-> "number"]

\* what localStorage.getItem(PRESETS_KEY) can give: null, "", text that is
\* no JSON, JSON that is no array, JSON of an array
StoredArray(entries) == [kind |-> "array", entries |-> entries]

EntryKinds == {Preset(i) : i \in 1..MaxPresets} \cup {NullEntry, NumberEntry}

StoredValues ==
    {[kind |-> k] : k \in {"absent", "empty", "garbage", "notArray"}} \cup
    {StoredArray(e) : e \in UNION {[1..n -> EntryKinds] : n \in 0..MaxPresets}}

loadPresets(st) ==
    IF st.kind \in {"absent", "empty"} THEN <<>>
    ELSE IF st.kind = "garbage" THEN <<>>
    ELSE IF st.kind = "array" THEN st.entries
    ELSE <<>>

savePresets(s, presets) == [s EXCEPT !.storage = StoredArray(presets)]

\* p.id of an entry p; reading it from null throws
ThrowsOnId(p) == p.kind = "null"

IdOf(p) == IF p.kind = "preset" THEN p.id ELSE Undefined

\* opt.value = p.id: the id as a string
OptionValue(p) == IF IdOf(p) = Undefined THEN UndefinedText ELSE IdOf(p)

\* the entries before the first one a callback throws on
BeforeThrow(presets) ==
    LET bad == {i \in 1..Len(presets) : ThrowsOnId(presets[i])}
    IN  IF bad = {} THEN presets
        ELSE SubSeq(presets, 1, (CHOOSE i \in bad : \A j \in bad : i <= j) - 1)

Thrown(s) == "TypeError" \in s.effects

refreshPresetSelect(s) ==
    LET presets == loadPresets(s.storage)
        current == s.dom.presetValue
        listed  == BeforeThrow(presets)
        options == [i \in 1..Len(listed) |-> OptionValue(listed[i])]
    IN  IF Len(listed) < Len(presets)
        THEN [s EXCEPT !.dom.presetOptions = options,
                       !.dom.presetValue = NoneValue,
                       !.effects = @ \cup {"TypeError"}]
        ELSE [s EXCEPT !.dom.presetOptions = options,
                       !.dom.presetValue =
                           IF current # NoneValue
                              /\ \E i \in 1..Len(options) : options[i] = current
                           THEN current ELSE NoneValue]

\* the rows init() creates when a list has none
DefaultRowsA ==
    <<[name |-> "Leg raises", seconds |-> NaN],
      [name |-> "Side plank (L)", seconds |-> NaN],
      [name |-> "Side plank (R)", seconds |-> NaN],
      [name |-> "Flutter kicks", seconds |-> NaN],
      [name |-> "Plank", seconds |-> NaN]>>

DefaultRowsB ==
    <<[name |-> "Push-ups", seconds |-> NaN],
      [name |-> "Squats", seconds |-> NaN]>>

init(s) ==
    LET rows == [s EXCEPT
                   !.form.exerciseListA =
                       IF Len(@) = 0 THEN DefaultRowsA ELSE @,
                   !.form.exerciseListB =
                       IF Len(@) = 0 THEN DefaultRowsB ELSE @]
        listed == refreshPresetSelect(setCircuitBEnabled(rows, FALSE))
    IN  IF Thrown(listed) THEN listed ELSE showSetup(listed)

\* the script from init() on: an exception in init() ends it, so that the
\* listeners after it are not registered and the label has no first update
pageLoad(s) ==
    LET started == init(s)
    IN  IF Thrown(started) THEN started ELSE updateTotalDurationLabel(started)

\* the listeners after init() are registered
Loaded(s) == s.dom.totalDurationLabel # MarkupLabel

\* the user picks an option of presetSelect: its input listener
presetSelectInput(s, value) ==
    LET picked == [s EXCEPT !.dom.presetValue = value]
    IN  IF Loaded(s) THEN updateTotalDurationLabel(picked) ELSE picked

deletePresetBtnClick(s) ==
    LET id == s.dom.presetValue
        presets == loadPresets(s.storage)
        kept == SelectSeq(presets, LAMBDA p : IdOf(p) # id)
        deleted ==
            IF id = NoneValue THEN s
            ELSE IF BeforeThrow(presets) # presets
                 THEN [s EXCEPT !.effects = @ \cup {"TypeError"}]
                 ELSE refreshPresetSelect(savePresets(s, kept))
    IN  IF Loaded(s)
        THEN updateTotalDurationLabel(deleted)
        ELSE deleted

\* the object savePresetBtn pushes
SavedPreset(id, name, w) ==
    [kind |-> "preset", id |-> id, name |-> name, workout |-> w]

\* makeId(): an id no stored entry has (the time and a random number in
\* the source), here the least unused number
makeId(presets) ==
    LET used == {IdOf(presets[i]) : i \in 1..Len(presets)}
    IN  CHOOSE id \in 1..(Len(presets) + 1) :
            /\ id \notin used
            /\ \A other \in 1..(Len(presets) + 1) :
                  other \notin used => id <= other

\* savePresetBtn click: the handler, then the label listener; name is
\* presetNameInput.value trimmed
savePresetBtnClick(s, name) ==
    LET w == getWorkoutFromInputs(s.form)
        presets == loadPresets(s.storage)
        pushed == Append(presets, SavedPreset(makeId(presets), name, w))
        saved ==
            IF name = "" THEN [s EXCEPT !.effects = @ \cup {"alert"}]
            ELSE IF Len(w.circuitA.exercises) = 0
            THEN [s EXCEPT !.effects = @ \cup {"alert"}]
            ELSE refreshPresetSelect(savePresets(s, pushed))
    IN  IF Loaded(s) THEN updateTotalDurationLabel(saved) ELSE saved

\* the remove button of the last row of a list: the row goes, then the
\* label is updated
removeRowClick(s, list) ==
    updateTotalDurationLabel(
        IF list = "A"
        THEN [s EXCEPT !.form.exerciseListA = SubSeq(@, 1, Len(@) - 1)]
        ELSE [s EXCEPT !.form.exerciseListB = SubSeq(@, 1, Len(@) - 1)])

\* the form as the markup has it: no rows, blank number fields
MarkupForm ==
    [workSeconds |-> NaN,
     restBetweenExercisesSeconds |-> NaN,
     restBetweenCircuitsSeconds |-> NaN,
     transitionRestSeconds |-> NaN,
     circuitRepeats |-> NaN,
     circuitBRepeats |-> NaN,
     circuitBPressed |-> FALSE,
     exerciseListA |-> <<>>,
     exerciseListB |-> <<>>]

\* the page before its script has run, over every stored value; the run
\* buttons, which no event of the presets touches, are hidden
PresetInit ==
    /\ InitGlobals
    /\ dom = InitialDom(TRUE, TRUE, TRUE)
    /\ form = MarkupForm
    /\ storage \in StoredValues
    /\ tickCount = NoCount
    /\ rerunLog = NoRerunLog

PageLoad ==
    /\ lastOp = "init"
    /\ \E s \in {pageLoad(Globals)} : Becomes(s, "pageLoad")

PresetSelectInput ==
    /\ lastOp # "init"
    /\ \E value \in {NoneValue} \cup {dom.presetOptions[i] :
                                        i \in 1..Len(dom.presetOptions)} :
          \E s \in {presetSelectInput(Globals, value)} :
              Becomes(s, "selectPreset")

DeletePresetBtnClick ==
    /\ lastOp # "init"
    /\ \E s \in {deletePresetBtnClick(Globals)} : Becomes(s, "deletePreset")

\* what presetNameInput holds when Save is clicked: nothing, or a name
PresetNames == {"", "Core set 1"}

SavePresetBtnClick ==
    /\ lastOp # "init"
    /\ Len(loadPresets(storage)) < MaxPresets
    /\ \E name \in PresetNames :
          \E s \in {savePresetBtnClick(Globals, name)} :
              Becomes(s, "savePreset")

\* the rows are there and their listeners work once init() has run through
RemoveRowClick ==
    /\ Loaded(Globals)
    /\ \E list \in {"A", "B"} :
          /\ Len(IF list = "A" THEN form.exerciseListA
                 ELSE form.exerciseListB) > 0
          /\ \E s \in {removeRowClick(Globals, list)} :
                Becomes(s, "removeRow")

PresetToggleCircuitBClick ==
    /\ Loaded(Globals)
    /\ \E s \in {toggleCircuitBClick(Globals)} : Becomes(s, "toggleB")

PresetNext ==
    \/ PageLoad
    \/ PresetSelectInput
    \/ DeletePresetBtnClick
    \/ SavePresetBtnClick
    \/ RemoveRowClick
    \/ PresetToggleCircuitBClick

PresetSpec == PresetInit /\ [][PresetNext]_vars

----------------------------------------------------------------------------
(* Vocabulary of the properties                                            *)

\* the run state and its tick source
ctrlVars == <<steps, workout, currentStepIndex, secondsRemaining, intervalId,
              isRunning, hasStarted, isFinished, timers>>

\* everything an event can change, but the record of the event itself
progVars == <<ctrlVars, lastHalfCueStepIndex, lastFinalCueKey,
              lastSpokenRestStepIndex, dom>>

\* a tick source is registered under the handle the program holds
TickSourceActive == intervalId # NullId /\ intervalId \in timers

NoTickSource == intervalId = NullId /\ timers = {}

\* durationSeconds of steps[i] of the source
DurationAt(i) == steps[i + 1].durationSeconds

OnLastStep == currentStepIndex + 1 >= Len(steps)

----------------------------------------------------------------------------
(* C1: start() from NotStarted or Paused, with steps, makes the phase      *)
(* Running and registers a tick source, leaving currentIndex and           *)
(* secondsRemaining alone; start() while Running, while Finished or with   *)
(* an empty step list changes nothing at all.                              *)
C1_Start ==
    [][lastOp' = "start" =>
         IF Phase \in {"NotStarted", "Paused"} /\ Len(steps) > 0
         THEN /\ Phase' = "Running"
              /\ TickSourceActive'
              /\ intervalId' \notin timers
              /\ currentStepIndex' = currentStepIndex
              /\ secondsRemaining' = secondsRemaining
         ELSE UNCHANGED progVars]_vars

C1_Witness ==
    /\ lastOp = "start" /\ prevPhase = "Paused" /\ Phase = "Running"
    /\ TickSourceActive
    /\ secondsRemaining < DurationAt(currentStepIndex)

(* C2: a tick while Running with s > 1 seconds remaining leaves s - 1 and  *)
(* the same step and phase; with s = 1 on a step that is not the last it   *)
(* moves to the next step at its full duration, still Running with a tick  *)
(* source active.                                                          *)
C2_Tick ==
    [][lastOp' = "tick" /\ Phase = "Running" /\ Len(steps) > 0 =>
         /\ secondsRemaining > 1 =>
              /\ secondsRemaining' = secondsRemaining - 1
              /\ currentStepIndex' = currentStepIndex
              /\ Phase' = "Running"
         /\ secondsRemaining = 1 /\ ~OnLastStep =>
              /\ currentStepIndex' = currentStepIndex + 1
              /\ secondsRemaining' = DurationAt(currentStepIndex + 1)
              /\ Phase' = "Running"
              /\ TickSourceActive']_vars

C2_Witness ==
    /\ lastOp = "tick" /\ prevPhase = "Running" /\ Phase = "Running"
    /\ currentStepIndex >= 1
    /\ secondsRemaining = DurationAt(currentStepIndex)
    /\ TickSourceActive

(* C3: the tick that exhausts the last step leaves the run Finished with   *)
(* secondsRemaining = 0 and no tick source, and no tick is processed while *)
(* Finished.                                                               *)
C3_TickFinishes ==
    [][/\ lastOp' = "tick" /\ Phase = "Running" /\ Len(steps) > 0
          /\ secondsRemaining = 1 /\ OnLastStep =>
            /\ Phase' = "Finished"
            /\ secondsRemaining' = 0
            /\ ~isRunning'
            /\ NoTickSource'
       /\ Phase = "Finished" => lastOp' # "tick"]_vars

C3_Witness ==
    /\ lastOp = "tick" /\ prevPhase = "Running" /\ Phase = "Finished"
    /\ secondsRemaining = 0 /\ NoTickSource
    /\ currentStepIndex + 1 = Len(steps)

(* C4: skip() on a step that is not the last keeps the phase (Running      *)
(* with a tick source; Paused or NotStarted without one), adds exactly 1   *)
(* to currentIndex and sets secondsRemaining to the new step's full        *)
(* duration.                                                               *)
C4_SkipKeepsPhase ==
    [][lastOp' = "skip" /\ Phase # "Finished" /\ Len(steps) > 0
         /\ ~OnLastStep =>
           /\ Phase' = Phase
           /\ currentStepIndex' = currentStepIndex + 1
           /\ secondsRemaining' = DurationAt(currentStepIndex + 1)
           /\ IF Phase = "Running" THEN TickSourceActive'
              ELSE NoTickSource']_vars

C4_Witness ==
    /\ lastOp = "skip" /\ prevPhase = "Paused" /\ Phase = "Paused"
    /\ currentStepIndex >= 1
    /\ secondsRemaining = DurationAt(currentStepIndex)
    /\ NoTickSource

(* C5: skip() on the last step leaves the run Finished with                *)
(* secondsRemaining = 0 and no tick source, from NotStarted, Running and   *)
(* Paused and whatever time remained.                                      *)
C5_SkipLastFinishes ==
    [][lastOp' = "skip" /\ Phase # "Finished" /\ Len(steps) > 0
         /\ OnLastStep =>
           /\ Phase' = "Finished"
           /\ secondsRemaining' = 0
           /\ NoTickSource']_vars

C5_Witness ==
    /\ lastOp = "skip" /\ prevPhase = "Running" /\ Phase = "Finished"
    /\ secondsRemaining = 0 /\ NoTickSource
    /\ Len(steps) > 1

(* C6: reset() with steps, from any phase, stops the tick source and       *)
(* leaves currentIndex = 0, secondsRemaining = steps[0].durationSeconds    *)
(* and the phase NotStarted; a start() right after it runs from step 0.    *)
C6_Reset ==
    [][/\ lastOp' = "reset" /\ Len(steps) > 0 =>
            /\ currentStepIndex' = 0
            /\ secondsRemaining' = DurationAt(0)
            /\ ~hasStarted' /\ ~isRunning' /\ ~isFinished'
            /\ Phase' = "NotStarted"
            /\ NoTickSource'
            /\ steps' = steps
       /\ lastOp = "reset" /\ lastOp' = "start" /\ Len(steps) > 0 =>
            /\ Phase' = "Running"
            /\ TickSourceActive'
            /\ currentStepIndex' = 0
            /\ secondsRemaining' = DurationAt(0)]_vars

C6_Witness ==
    /\ lastOp = "reset" /\ prevPhase = "Finished" /\ Phase = "NotStarted"
    /\ Len(steps) > 1
    /\ currentStepIndex = 0 /\ secondsRemaining = DurationAt(0)
    /\ NoTickSource

\* the finished branch of render() is what the page shows
CompletionShown ==
    dom.currentLabel = "Workout complete" /\ dom.timeLabel = <<0, 0>>

\* the labels render() writes for steps[i] of the source
StepShown(i) ==
    LET step == steps[i + 1]
        info == getProgressForStep(Globals, i)
    IN  /\ dom.currentLabel =
             (IF step.type = "exercise" THEN step.label
              ELSE IF step.type = "transition_rest" THEN "Transition rest"
              ELSE "Rest")
        /\ dom.phaseLabel = (IF step.type = "exercise" THEN "Exercise" ELSE "Rest")
        /\ dom.progressLabel.info = info

(* C7: with steps, the page last rendered agrees with the run state: the   *)
(* completion display ("Workout complete", 00:00) is shown exactly when    *)
(* the phase is Finished, and otherwise the time shown is secondsRemaining *)
(* and the step shown is steps[currentIndex].                              *)
C7_ViewAgrees ==
    Len(steps) > 0 =>
        /\ CompletionShown <=> Phase = "Finished"
        /\ Phase # "Finished" =>
             /\ dom.timeLabel = formatTime(secondsRemaining)
             /\ StepShown(currentStepIndex)

(* C8: pause() while Running stops the tick source and leaves the phase    *)
(* Paused with currentIndex and secondsRemaining as they were; in any      *)
(* other phase it changes nothing of the run state (and, with steps,       *)
(* nothing of the page), so a second pause() in a row changes nothing.     *)
C8_Pause ==
    [][lastOp' = "pause" =>
         /\ Phase = "Running" =>
              /\ Phase' = "Paused"
              /\ NoTickSource'
              /\ currentStepIndex' = currentStepIndex
              /\ secondsRemaining' = secondsRemaining
              /\ steps' = steps
         /\ Phase # "Running" => UNCHANGED ctrlVars
         /\ Phase # "Running" /\ Len(steps) > 0 => UNCHANGED progVars
         /\ lastOp = "pause" => UNCHANGED progVars]_vars

C8_Witness ==
    /\ lastOp = "pause" /\ prevPhase = "Running" /\ Phase = "Paused"
    /\ NoTickSource
    /\ secondsRemaining < DurationAt(currentStepIndex)

(* C9: at most one interval timer is registered at any time.               *)
C9_OneTimer == Cardinality(timers) <= 1

C9_Witness ==
    /\ lastOp = "skip" /\ prevPhase = "Running" /\ Phase = "Running"
    /\ Cardinality(timers) = 1 /\ TickSourceActive

(* C10: between events a tick source is registered exactly when isRunning  *)
(* is true, which is exactly when the phase is Running; none is registered *)
(* after back-to-setup.                                                    *)
C10_TimerIffRunning ==
    /\ (intervalId # NullId) <=> isRunning
    /\ (timers # {}) <=> isRunning
    /\ isRunning <=> Phase = "Running"
    /\ intervalId # NullId => intervalId \in timers
    /\ lastOp = "backToSetup" => NoTickSource

C10_Witness ==
    /\ lastOp = "backToSetup" /\ prevPhase = "Running"
    /\ NoTickSource /\ ~isRunning /\ Phase = "Paused"

(* C11: once the timer is cancelled (pause, reset, Finished,               *)
(* back-to-setup) no tick source is left, no tick is processed while the   *)
(* phase is not Running, and there every change of secondsRemaining or     *)
(* currentIndex is the work of skip, reset or a new workout.               *)
C11_NoTickAfterCancel ==
    [][/\ Phase # "Running" => lastOp' # "tick"
       /\ /\ Phase # "Running"
          /\ \/ secondsRemaining' # secondsRemaining
             \/ currentStepIndex' # currentStepIndex
          => lastOp' \in {"skip", "reset", "newWorkout"}
       /\ \/ lastOp' \in {"pause", "reset", "backToSetup"}
          \/ Phase' = "Finished"
          => timers' = {}]_vars

C11_Witness ==
    /\ lastOp = "skip" /\ prevPhase = "Paused" /\ Phase = "Paused"
    /\ currentStepIndex >= 1
    /\ secondsRemaining = DurationAt(currentStepIndex)
    /\ timers = {}

\* pause() then resume(), computed from the current state
PauseThenResume == startTimer(stopTimer(Globals))

(* C12: resume() acts as start() does: from Paused it makes the phase      *)
(* Running with a tick source and leaves currentIndex and secondsRemaining *)
(* alone, otherwise it changes nothing; so pause() then resume() in a      *)
(* Running state is Running again at the same step and second, and the     *)
(* next tick counts down from that second.                                 *)
C12_ResumeIsStart ==
    /\ [](Phase = "Running" /\ Len(steps) > 0 =>
            /\ PauseThenResume.isRunning
            /\ ~PauseThenResume.isFinished
            /\ PauseThenResume.steps = steps
            /\ PauseThenResume.currentStepIndex = currentStepIndex
            /\ PauseThenResume.secondsRemaining = secondsRemaining
            /\ PauseThenResume.timers = {PauseThenResume.intervalId}
            /\ PauseThenResume.intervalId # NullId)
    /\ [][/\ lastOp' = "resume" =>
               IF Phase \in {"NotStarted", "Paused"} /\ Len(steps) > 0
               THEN /\ Phase' = "Running"
                    /\ TickSourceActive'
                    /\ currentStepIndex' = currentStepIndex
                    /\ secondsRemaining' = secondsRemaining
               ELSE UNCHANGED progVars
           /\ lastOp = "resume" /\ lastOp' = "tick" /\ secondsRemaining > 1 =>
               /\ secondsRemaining' = secondsRemaining - 1
               /\ currentStepIndex' = currentStepIndex]_vars

C12_Witness ==
    /\ lastOp = "resume" /\ prevPhase = "Paused" /\ Phase = "Running"
    /\ TickSourceActive
    /\ currentStepIndex >= 1
    /\ secondsRemaining < DurationAt(currentStepIndex)

----------------------------------------------------------------------------
(* Vocabulary of the builder properties: the steps built by the last       *)
(* accepted Start click, numbered from 1                                   *)

\* Start was clicked and the form accepted
Built == lastOp = "newWorkout" /\ Len(steps) > 0

StepsOfType(type) == {k \in 1..Len(steps) : steps[k].type = type}

CircuitOf(circuitId) ==
    IF circuitId = "B" THEN workout.circuitB ELSE workout.circuitA

\* how many exercise steps of the circuit of steps[k] lie in steps[1..k]
ExerciseOrdinal(k) ==
    Cardinality({j \in 1..k : /\ steps[j].type = "exercise"
                              /\ steps[j].circuitId = steps[k].circuitId})

\* the exercise that the exercise step steps[k] is a repetition of
ExerciseOf(k) ==
    LET exercises == CircuitOf(steps[k].circuitId).exercises
    IN  exercises[((ExerciseOrdinal(k) - 1) % Len(exercises)) + 1]

DurationsOf(ss) == [k \in 1..Len(ss) |-> ss[k].durationSeconds]

(* C13: with circuit B off, N1 exercises and R1 repeats, the steps built   *)
(* are R1*N1 exercise steps, R1*(N1-1) rest steps if the rest between      *)
(* exercises is positive, R1-1 circuit rests if the rest between circuits  *)
(* is positive, and nothing else; 2 exercises x 2 repeats with 45/15/60    *)
(* gives 7 steps.                                                          *)
C13_StepCount ==
    Built /\ ~workout.circuitB.enabled =>
        LET n1 == Len(workout.circuitA.exercises)
            r1 == workout.circuitA.repeats
            rests == IF workout.restBetweenExercisesSeconds > 0
                     THEN r1 * (n1 - 1) ELSE 0
            circuitRests == IF workout.restBetweenCircuitsSeconds > 0
                            THEN r1 - 1 ELSE 0
        IN  /\ Cardinality(StepsOfType("exercise")) = r1 * n1
            /\ Cardinality(StepsOfType("rest")) = rests
            /\ Cardinality(StepsOfType("circuit_rest")) = circuitRests
            /\ Len(steps) = r1 * n1 + rests + circuitRests
            /\ /\ n1 = 2 /\ r1 = 2
               /\ workout.restBetweenExercisesSeconds = 15
               /\ workout.restBetweenCircuitsSeconds = 60
               => Len(steps) = 7

C13_Witness ==
    /\ Built /\ ~workout.circuitB.enabled
    /\ Len(workout.circuitA.exercises) = 2 /\ workout.circuitA.repeats = 2
    /\ DurationsOf(steps) = <<45, 15, 45, 60, 45, 15, 45>>

(* C14: in each circuit's part the exercise steps are the configured       *)
(* exercises in order, once per repetition; a rest stands only directly    *)
(* between two consecutive exercises of one repetition, a circuit rest     *)
(* only directly between the last exercise of a repetition and the first   *)
(* of the next.                                                            *)
C14_OrderWithinCircuit ==
    Built =>
        /\ \A c \in {"A", "B"} :
             (c = "A" \/ workout.circuitB.enabled) =>
                Cardinality({k \in StepsOfType("exercise") :
                                 steps[k].circuitId = c})
                    = CircuitOf(c).repeats * Len(CircuitOf(c).exercises)
        /\ \A k \in StepsOfType("exercise") :
             steps[k].label = ExerciseOf(k).name
        /\ \A k \in StepsOfType("rest") \cup StepsOfType("circuit_rest") :
             /\ k > 1 /\ k < Len(steps)
             /\ steps[k - 1].type = "exercise"
             /\ steps[k + 1].type = "exercise"
             /\ steps[k - 1].circuitId = steps[k].circuitId
             /\ steps[k + 1].circuitId = steps[k].circuitId
             /\ LET n == Len(CircuitOf(steps[k].circuitId).exercises)
                IN  (steps[k].type = "circuit_rest")
                        <=> (ExerciseOrdinal(k - 1) % n = 0)

C14_Witness ==
    /\ Built /\ workout.circuitB.enabled
    /\ \E k \in StepsOfType("circuit_rest") : steps[k].circuitId = "B"
    /\ \E k \in StepsOfType("rest") : steps[k].circuitId = "B"
    /\ Cardinality(StepsOfType("circuit_rest")) >= 3

(* C15: with circuit B on and a positive transition rest the steps hold    *)
(* exactly one transition rest, of that duration, directly after the last  *)
(* step of circuit A and directly before the first exercise of circuit B;  *)
(* with circuit B off or a transition rest of 0 they hold none.            *)
C15_TransitionRest ==
    Built =>
        IF workout.circuitB.enabled /\ workout.transitionRestSeconds > 0
        THEN \E k \in 2..(Len(steps) - 1) :
               /\ StepsOfType("transition_rest") = {k}
               /\ steps[k].durationSeconds = workout.transitionRestSeconds
               /\ \A j \in 1..(k - 1) : steps[j].circuitId = "A"
               /\ \A j \in (k + 1)..Len(steps) : steps[j].circuitId = "B"
               /\ steps[k - 1].type = "exercise"
               /\ steps[k + 1].type = "exercise"
               /\ steps[k + 1].label = workout.circuitB.exercises[1].name
        ELSE StepsOfType("transition_rest") = {}

C15_Witness ==
    /\ Built /\ workout.circuitB.enabled
    /\ workout.transitionRestSeconds > 0
    /\ workout.restBetweenCircuitsSeconds = 0
    /\ Cardinality(StepsOfType("transition_rest")) = 1

\* the workout the first part of app.js reads from the same numbers and
\* names: exercises are the names, there is no transition rest field
FirstVariantWorkout(w) ==
    LET names(exercises) == [i \in 1..Len(exercises) |-> exercises[i].name]
    IN  [workSeconds |-> w.workSeconds,
         restBetweenExercisesSeconds |-> w.restBetweenExercisesSeconds,
         restBetweenCircuitsSeconds |-> w.restBetweenCircuitsSeconds,
         circuitA |-> [repeats |-> w.circuitA.repeats,
                       exercises |-> names(w.circuitA.exercises)],
         circuitB |-> [enabled |-> w.circuitB.enabled,
                       repeats |-> w.circuitB.repeats,
                       exercises |-> names(w.circuitB.exercises)]]

\* the durations of what stands between circuit A's last step and circuit
\* B's first exercise in ss: the steps of circuit B before its first exercise
BoundaryOf(ss) ==
    LET isExercise(k) == ss[k].type \in {"exercise", "work"}
        before == {k \in 1..Len(ss) :
                     /\ ss[k].circuitId = "B"
                     /\ \A j \in 1..k : ss[j].circuitId = "B" => ~isExercise(j)}
    IN  {<<k - Cardinality({j \in 1..k : ss[j].circuitId = "A"}),
           ss[k].durationSeconds>> : k \in before}

\* the values restBetweenCircuitsSeconds takes over the forms
CircuitRestChoices ==
    {clampInt(text, 0, DefaultRestBetweenCircuits) : text \in RestTexts}

\* workout w with another restBetweenCircuitsSeconds
WithCircuitRest(w, rc) == [w EXCEPT !.restBetweenCircuitsSeconds = rc]

(* C16: in each of the three copies of buildSteps, what stands between     *)
(* circuit A's last step and circuit B's first exercise does not depend on *)
(* restBetweenCircuitsSeconds: its presence and duration are the same for  *)
(* workouts that differ only in that value.                                *)
C16_BoundaryIndependent ==
    Built =>
        \A rc \in CircuitRestChoices :
            /\ BoundaryOf(buildSteps(WithCircuitRest(workout, rc)))
                 = BoundaryOf(buildSteps(workout))
            /\ BoundaryOf(buildStepsPart000(WithCircuitRest(workout, rc)))
                 = BoundaryOf(buildStepsPart000(workout))
            /\ BoundaryOf(buildStepsFirst(
                     WithCircuitRest(FirstVariantWorkout(workout), rc)))
                 = BoundaryOf(buildStepsFirst(FirstVariantWorkout(workout)))

(* C17: the workout read from the form has workSeconds >= 1, rests >= 0    *)
(* and overrides that are absent or positive, every step built from it     *)
(* lasts at least one second, and a rest value of 0 gives no step of that  *)
(* kind.                                                                   *)
C17_PositiveDurations ==
    Built =>
        /\ workout.workSeconds >= 1
        /\ workout.restBetweenExercisesSeconds >= 0
        /\ workout.restBetweenCircuitsSeconds >= 0
        /\ workout.transitionRestSeconds >= 0
        /\ \A c \in {"A", "B"} :
             \A i \in 1..Len(CircuitOf(c).exercises) :
                \/ CircuitOf(c).exercises[i].secondsOverride = NullOverride
                \/ CircuitOf(c).exercises[i].secondsOverride > 0
        /\ \A k \in 1..Len(steps) : steps[k].durationSeconds >= 1
        /\ workout.restBetweenExercisesSeconds = 0 => StepsOfType("rest") = {}
        /\ workout.restBetweenCircuitsSeconds = 0
             => StepsOfType("circuit_rest") = {}
        /\ workout.transitionRestSeconds = 0
             => StepsOfType("transition_rest") = {}

C17_Witness ==
    /\ Built
    /\ form.workSeconds = Num(0)
    /\ form.restBetweenExercisesSeconds = Num(-1)
    /\ form.exerciseListA = UnsetRows(2)
    /\ workout.circuitB.enabled /\ workout.transitionRestSeconds = 0
    /\ \A k \in 1..Len(steps) : steps[k].durationSeconds = 1

(* C18: an exercise step lasts the override of its exercise when there is  *)
(* one and workSeconds otherwise, in every repetition; another workSeconds *)
(* leaves the number of steps and the duration of every step with an       *)
(* override as they are.                                                   *)
C18_OverrideDuration ==
    Built =>
        /\ \A k \in StepsOfType("exercise") :
             steps[k].durationSeconds =
                 IF ExerciseOf(k).secondsOverride # NullOverride
                 THEN ExerciseOf(k).secondsOverride
                 ELSE workout.workSeconds
        /\ \A text \in WorkTexts :
             LET other == buildSteps(
                     [workout EXCEPT !.workSeconds =
                          clampInt(text, 1, DefaultWorkSeconds)])
             IN  /\ Len(other) = Len(steps)
                 /\ \A k \in StepsOfType("exercise") :
                      ExerciseOf(k).secondsOverride # NullOverride
                          => other[k].durationSeconds = steps[k].durationSeconds

C18_Witness ==
    /\ Built
    /\ workout.workSeconds = DefaultWorkSeconds
    /\ Cardinality({k \in StepsOfType("exercise") :
                       /\ steps[k].circuitId = "A"
                       /\ ExerciseOf(k).secondsOverride = 1
                       /\ steps[k].durationSeconds = 1}) >= 3

(* C19: the total duration shown on the setup screen is the sum of the     *)
(* durations of the steps a run started with the same form gets, which is  *)
(* the total the overall percent is computed from (4m 30s for the 270      *)
(* seconds of 2 exercises x 2 repeats with 45/15/60).                      *)
C19_EstimateIsTotal ==
    Built =>
        /\ dom.totalDurationLabel = DurationLabel(SumDurations(steps, 1))
        /\ Len(dom.totalDurationLabel) = 2
        /\ dom.totalDurationLabel[1] * 60 + dom.totalDurationLabel[2]
             = SumDurations(steps, 1)
        /\ dom.overallProgressFill.den = SumDurations(steps, 1)

C19_Witness ==
    /\ Built
    /\ Len(steps) = 7 /\ SumDurations(steps, 1) = 270
    /\ dom.totalDurationLabel = <<4, 30>>
    /\ dom.overallProgressFill = [num |-> 0, den |-> 270]

(* C20: for every index of a built step list getProgressForStep gives an   *)
(* exercise position within 1..exercisesPerRound and a round within        *)
(* 1..totalRounds, these being the exercise count and the repeats of the   *)
(* step's circuit.                                                         *)
C20_ProgressInRange ==
    Built =>
        \A i \in 0..(Len(steps) - 1) :
            LET info == getProgressForStep(Globals, i)
                circuit == CircuitOf(steps[i + 1].circuitId)
            IN  /\ info # NoInfo
                /\ info.circuitId = steps[i + 1].circuitId
                /\ info.exercisesPerRound = Len(circuit.exercises)
                /\ info.totalRounds = circuit.repeats
                /\ info.exercise \in 1..info.exercisesPerRound
                /\ info.round \in 1..info.totalRounds

C20_Witness ==
    /\ Built
    /\ \E i \in 0..(Len(steps) - 1) :
          /\ steps[i + 1].type = "transition_rest"
          /\ getProgressForStep(Globals, i).round = 1
          /\ getProgressForStep(Globals, i).exercise = 1
    /\ getProgressForStep(Globals, Len(steps) - 1).circuitId = "B"
    /\ getProgressForStep(Globals, Len(steps) - 1).round = MaxRepeats
    /\ getProgressForStep(Globals, Len(steps) - 1).exercise = MaxExercises

\* where the exercise step steps[k] stands in its circuit, read off the
\* labels: the position of its exercise in the configured list, and how
\* many steps of that exercise the circuit has had up to steps[k]
PositionOf(k) ==
    LET exercises == CircuitOf(steps[k].circuitId).exercises
    IN  CHOOSE j \in 1..Len(exercises) : exercises[j].name = steps[k].label

RepetitionOf(k) ==
    Cardinality({i \in 1..k : /\ steps[i].type = "exercise"
                              /\ steps[i].circuitId = steps[k].circuitId
                              /\ steps[i].label = steps[k].label})

(* C21: getProgressForStep gives, for the step that is the j-th exercise   *)
(* of repetition r of its circuit, round r and exercise j; for a rest or   *)
(* circuit rest the round and exercise of the exercise just before it; for *)
(* the transition rest before circuit B round 1, exercise 1; the first     *)
(* exercise of circuit B is round 1, exercise 1 whatever circuit A held.    *)
C21_ProgressCounts ==
    Built =>
        \A k \in 1..Len(steps) :
            LET info == getProgressForStep(Globals, k - 1)
            IN  /\ steps[k].type = "exercise" =>
                     /\ info.round = RepetitionOf(k)
                     /\ info.exercise = PositionOf(k)
                /\ steps[k].type \in {"rest", "circuit_rest"} =>
                     /\ info.round = RepetitionOf(k - 1)
                     /\ info.exercise = PositionOf(k - 1)
                     /\ info.circuitId = steps[k - 1].circuitId
                /\ steps[k].type = "transition_rest" =>
                     /\ info.circuitId = "B"
                     /\ info.round = 1 /\ info.exercise = 1

C21_Witness ==
    /\ Built /\ workout.circuitB.enabled
    /\ Len(workout.circuitA.exercises) = MaxExercises
    /\ workout.circuitA.repeats = MaxRepeats
    /\ \E k \in StepsOfType("circuit_rest") :
          /\ steps[k].circuitId = "B"
          /\ getProgressForStep(Globals, k - 1).round = 2
          /\ getProgressForStep(Globals, k - 1).exercise = MaxExercises
    /\ \E k \in StepsOfType("exercise") \ {1} :
          /\ steps[k - 1].type = "transition_rest"
          /\ getProgressForStep(Globals, k - 1).round = 1
          /\ getProgressForStep(Globals, k - 1).exercise = 1

\* the globals with the circuit of steps[k] emptied of its exercises
WithEmptyCircuitOf(k) ==
    IF steps[k].circuitId = "B"
    THEN [Globals EXCEPT !.workout.circuitB.exercises = <<>>]
    ELSE [Globals EXCEPT !.workout.circuitA.exercises = <<>>]

(* C22: getProgressForStep gives the null result, without failing, for an  *)
(* index below 0 or at or beyond the number of steps, when no workout is   *)
(* set, and when the circuit of the step has no exercises.                 *)
C22_ProgressUnavailable ==
    /\ \A i \in {-1, Len(steps), Len(steps) + 1} :
          getProgressForStep(Globals, i) = NoInfo
    /\ \A i \in -1..Len(steps) :
          getProgressForStep([Globals EXCEPT !.workout = NoWorkout], i) = NoInfo
    /\ Built =>
          \A k \in 1..Len(steps) :
              getProgressForStep(WithEmptyCircuitOf(k), k - 1) = NoInfo

C22_Witness ==
    /\ Built /\ workout.circuitB.enabled
    /\ steps[Len(steps)].circuitId = "B"
    /\ getProgressForStep(Globals, Len(steps) - 1) # NoInfo
    /\ getProgressForStep(Globals, Len(steps)) = NoInfo
    /\ getProgressForStep(WithEmptyCircuitOf(Len(steps)), Len(steps) - 1)
          = NoInfo

(* C23: a tick sounds the halfway cue exactly when the step is an exercise *)
(* and the tick leaves floor(durationSeconds / 2) seconds, so an exercise   *)
(* counted down by ticks gets it once; no other event sounds it, and no     *)
(* tick of a rest, circuit rest or transition rest does.                    *)
C23_HalfwayCue ==
    [][/\ lastOp' = "tick" /\ Len(steps) > 0 =>
            ("cueHalf" \in effects' <=>
                /\ steps[currentStepIndex + 1].type = "exercise"
                /\ secondsRemaining - 1 = DurationAt(currentStepIndex) \div 2)
       /\ lastOp' # "tick" => "cueHalf" \notin effects']_vars

C23_Witness ==
    /\ lastOp = "tick" /\ Phase = "Running"
    /\ "cueHalf" \in effects
    /\ steps[currentStepIndex + 1].type = "exercise"
    /\ secondsRemaining = DurationAt(currentStepIndex) \div 2
    /\ secondsRemaining >= 2
    /\ lastHalfCueStepIndex = currentStepIndex

(* C24: a tick sounds the final-countdown cue exactly when it leaves a      *)
(* step that is not over with 3, 2 or 1 seconds remaining, the value a      *)
(* step starts at included: every value in {3,2,1} up to the duration of a  *)
(* step counted down by ticks gets its cue, and no other value does.        *)
C24_FinalCountdown ==
    [][lastOp' = "tick" /\ Len(steps) > 0 =>
         ("cueFinalTick" \in effects' <=>
             ~isFinished' /\ secondsRemaining' \in 1..3)]_vars

\* the cues the last event sounded
CuesSounded ==
    (IF "cueHalf" \in effects
     THEN {<<"half", lastHalfCueStepIndex>>} ELSE {}) \cup
    (IF "cueFinalTick" \in effects
     THEN {<<"final", lastFinalCueKey[1], lastFinalCueKey[2]>>} ELSE {})

(* C25: between two resets or accepted Starts the step index never goes    *)
(* back, and no event sounds a cue that was already sounded on the current *)
(* step: the halfway cue at most once per step, the final-countdown cue at *)
(* most once per step and second, whatever start, pause, resume, skip and  *)
(* tick come in between.                                                   *)
C25_CuesOnce ==
    [][/\ lastOp' \notin {"reset", "newWorkout"} =>
            currentStepIndex' >= currentStepIndex
       /\ \A cue \in CuesSounded' :
            /\ cue \notin cueLog
            /\ cue[2] = currentStepIndex]_vars

C25_Witness ==
    /\ lastOp = "resume" /\ prevPhase = "Paused"
    /\ currentStepIndex >= 1
    /\ cueLog = {<<"half", currentStepIndex>>,
                 <<"final", currentStepIndex, 3>>,
                 <<"final", currentStepIndex, 2>>,
                 <<"final", currentStepIndex, 1>>}

(* C26: "Rest" is spoken by exactly those events that advance, by a tick   *)
(* or by skip in any phase, from an exercise step to a rest, circuit rest  *)
(* or transition rest; not when the new step is an exercise, not by Start, *)
(* reset, pause or resume, and not on reaching Finished. The index only    *)
(* grows within a run, so each such step is announced once.                *)
C26_SpokenRest ==
    [][("speakRest" \in effects' /\ Len(steps') > 0) <=>
          /\ lastOp' \in {"tick", "skip"}
          /\ Len(steps) > 0
          /\ currentStepIndex' = currentStepIndex + 1
          /\ steps[currentStepIndex + 1].type = "exercise"
          /\ isRestType(steps[currentStepIndex' + 1].type)]_vars

C26_Witness ==
    /\ lastOp = "skip" /\ prevPhase = "Paused"
    /\ "speakRest" \in effects
    /\ steps[currentStepIndex + 1].type = "transition_rest"
    /\ lastSpokenRestStepIndex = currentStepIndex
    /\ secondsRemaining = DurationAt(currentStepIndex)

\* the form has an exercise in circuit A and, if circuit B is on, in B
FormValid(f) ==
    /\ Len(getExercisesFromList(f.exerciseListA)) > 0
    /\ f.circuitBPressed => Len(getExercisesFromList(f.exerciseListB)) > 0

(* C27: Start with a form that has no circuit A exercise, or has circuit B *)
(* on without exercises, is rejected with an alert and leaves workout,     *)
(* steps, currentIndex, secondsRemaining and the phase flags as they were; *)
(* buildSteps is called by no event, Start or label update, whose form is  *)
(* such.                                                                   *)
C27_RejectsEmpty ==
    [][/\ lastOp' = "newWorkout" /\ ~FormValid(form) =>
            /\ "alert" \in effects'
            /\ UNCHANGED <<workout, steps, currentStepIndex, secondsRemaining,
                           isRunning, hasStarted, isFinished, intervalId,
                           timers, dom>>
       /\ "buildSteps" \in effects' => FormValid(form')]_vars

C27_Witness ==
    /\ lastOp = "newWorkout" /\ "alert" \in effects
    /\ form.circuitBPressed /\ form.exerciseListB = <<>>
    /\ Len(form.exerciseListA) = MaxExercises
    /\ dom.totalDurationLabel = DashLabel
    /\ dom.view = "setup" /\ steps = <<>> /\ workout = NoWorkout

\* the stored value is no array of preset objects
Malformed(st) ==
    \/ st.kind # "array"
    \/ \E i \in 1..Len(st.entries) : st.entries[i].kind # "preset"

\* C28: whatever the presets key holds, no event that loads or lists the
\* presets throws, and after the page has listed them a malformed stored
\* value shows as an empty preset list
C28_PresetsNeverThrow ==
    /\ "TypeError" \notin effects
    /\ lastOp = "pageLoad" /\ Malformed(storage) =>
           /\ dom.presetOptions = <<>>
           /\ dom.view = "setup"

\* the stored array [null]: init() has thrown while listing it
C28_NullEntryThrows ==
    /\ lastOp = "pageLoad"
    /\ storage = StoredArray(<<NullEntry>>)
    /\ "TypeError" \in effects
    /\ dom.totalDurationLabel = MarkupLabel


\* what a number field holding text gives: the default when the text does
\* not parse, the minimum when the number is below it, else the number
FieldValue(text, min, default) ==
    IF text.nan THEN default
    ELSE IF text.n < min THEN min
    ELSE text.n

\* the invariant of a WorkoutConfig
ConfigInvariant(w) ==
    /\ w.workSeconds >= 1
    /\ w.circuitA.repeats >= 1
    /\ w.circuitB.repeats >= 1
    /\ w.restBetweenExercisesSeconds >= 0
    /\ w.restBetweenCircuitsSeconds >= 0
    /\ w.transitionRestSeconds >= 0
    /\ \A c \in {w.circuitA, w.circuitB} :
         \A i \in 1..Len(c.exercises) :
            \/ c.exercises[i].secondsOverride = NullOverride
            \/ c.exercises[i].secondsOverride > 0

\* C29: whatever the form holds, the workout read from it satisfies the
\* WorkoutConfig invariant, each number field giving its default when the
\* text does not parse and its minimum when the number is below it; the
\* workout a Start has kept is one of these
C29_InputsClamped ==
    LET w == getWorkoutFromInputs(form)
    IN  /\ ConfigInvariant(w)
        /\ w.workSeconds = FieldValue(form.workSeconds, 1, 45)
        /\ w.restBetweenExercisesSeconds =
               FieldValue(form.restBetweenExercisesSeconds, 0, 15)
        /\ w.restBetweenCircuitsSeconds =
               FieldValue(form.restBetweenCircuitsSeconds, 0, 60)
        /\ w.transitionRestSeconds =
               FieldValue(form.transitionRestSeconds, 0, 60)
        /\ w.circuitA.repeats = FieldValue(form.circuitRepeats, 1, 2)
        /\ w.circuitB.repeats = FieldValue(form.circuitBRepeats, 1, 2)
        /\ workout # NoWorkout => workout = w /\ ConfigInvariant(workout)

\* a Start accepted from a form of zero work seconds, negative rests,
\* blank repeats of circuit A, zero repeats of circuit B and a row whose
\* seconds field holds 0
C29_Witness ==
    /\ lastOp = "newWorkout" /\ workout # NoWorkout
    /\ form.workSeconds = Num(0) /\ workout.workSeconds = 1
    /\ form.restBetweenExercisesSeconds = Num(-1)
    /\ workout.restBetweenExercisesSeconds = 0
    /\ form.restBetweenCircuitsSeconds = NaN
    /\ workout.restBetweenCircuitsSeconds = 60
    /\ form.transitionRestSeconds = Num(-1)
    /\ workout.transitionRestSeconds = 0
    /\ form.circuitRepeats = NaN /\ workout.circuitA.repeats = 2
    /\ form.circuitBRepeats = Num(0) /\ workout.circuitB.repeats = 1
    /\ \E i \in 1..Len(form.exerciseListA) :
          /\ form.exerciseListA[i].seconds = Num(0)
          /\ workout.circuitA.exercises[i].secondsOverride = NullOverride

\* C30: while there are steps, currentStepIndex is the index of one of
\* them and secondsRemaining is not negative, so that steps[currentStepIndex]
\* is defined for every handler that reads it
C30_IndexInRange ==
    Len(steps) > 0 =>
        /\ 0 <= currentStepIndex /\ currentStepIndex < Len(steps)
        /\ HasStep(Globals, currentStepIndex)
        /\ LET step == StepAt(Globals, currentStepIndex)
           IN  step.type = "exercise" \/ isRestType(step.type)
        /\ secondsRemaining >= 0

\* Skip pressed when the workout had already finished: the index stays on
\* the last step
C30_Witness ==
    /\ lastOp = "skip" /\ prevPhase = "Finished" /\ isFinished
    /\ Len(steps) > 1
    /\ currentStepIndex = Len(steps) - 1
    /\ secondsRemaining = 0

\* a tick at the last second of the last step finishes the workout on it
C30_TickAtLastStep ==
    /\ lastOp = "tick" /\ prevPhase = "Running" /\ isFinished
    /\ Len(steps) > 1
    /\ currentStepIndex = Len(steps) - 1
    /\ secondsRemaining = 0

\* the last event was a Start of the setup screen that was accepted
Accepted == lastOp = "newWorkout" /\ "alert" \notin effects

\* C31: after an accepted Start of the setup screen, whatever the run was
\* in before, the phase is NotStarted on step 0 of the sequence built from
\* the new workout with that step's full duration remaining, no tick
\* source is left and the one-shot cue trackers are cleared
C31_NewWorkoutResets ==
    Accepted =>
        /\ steps = buildSteps(workout) /\ Len(steps) > 0
        /\ Phase = "NotStarted"
        /\ ~hasStarted /\ ~isRunning /\ ~isFinished
        /\ currentStepIndex = 0
        /\ secondsRemaining = DurationAt(0)
        /\ NoTickSource
        /\ lastHalfCueStepIndex = NullIndex
        /\ lastFinalCueKey = NullKey
        /\ lastSpokenRestStepIndex = NullIndex
        /\ cueLog = {}

\* Start accepted while the previous run was still counting down
C31_Witness ==
    /\ Accepted /\ prevPhase = "Running"
    /\ Phase = "NotStarted" /\ NoTickSource
    /\ currentStepIndex = 0 /\ secondsRemaining = DurationAt(0)

\* Start accepted after the previous run had finished
C31_FromFinished ==
    /\ Accepted /\ prevPhase = "Finished"
    /\ Phase = "NotStarted" /\ currentStepIndex = 0

\* the preset the last event has written
LastSaved == storage.entries[Len(storage.entries)]

\* C32: the workout of every preset the save button writes has an exercise
\* in circuit A and, when circuit B is on, an exercise in circuit B
C32_SavedPresetsValid ==
    lastOp = "savePreset" /\ "alert" \notin effects =>
        /\ storage.kind = "array" /\ Len(storage.entries) > 0
        /\ Len(LastSaved.workout.circuitA.exercises) > 0
        /\ LastSaved.workout.circuitB.enabled =>
               Len(LastSaved.workout.circuitB.exercises) > 0

\* a preset written with circuit B on and no exercise in it
C32_SavedWithEmptyCircuitB ==
    /\ lastOp = "savePreset" /\ "alert" \notin effects
    /\ LastSaved.workout.circuitB.enabled
    /\ Len(LastSaved.workout.circuitB.exercises) = 0
    /\ Len(LastSaved.workout.circuitA.exercises) > 0

\* Save refused because circuit A has no exercise
C32_RefusedWithEmptyCircuitA ==
    /\ lastOp = "savePreset" /\ "alert" \in effects
    /\ form.exerciseListA = <<>>

\* C33: between events, while there are steps, a step that is not finished
\* has between 1 and its duration seconds remaining; a finished workout
\* has 0 remaining, stands on its last step and is not running
C33_RemainingInStep ==
    Len(steps) > 0 =>
        IF Phase = "Finished"
        THEN /\ secondsRemaining = 0
             /\ currentStepIndex = Len(steps) - 1
             /\ ~isRunning
        ELSE /\ 1 <= secondsRemaining
             /\ secondsRemaining <= DurationAt(currentStepIndex)

\* a tick has exhausted a step that is not the last: the next step stands
\* with its full duration, never the exhausted one with 0
C33_Witness ==
    /\ lastOp = "tick" /\ Phase = "Running"
    /\ currentStepIndex > 0
    /\ DurationAt(currentStepIndex - 1) > 1
    /\ secondsRemaining = DurationAt(currentStepIndex)

\* a step on its last second
C33_LastSecond ==
    /\ lastOp = "tick" /\ Phase = "Running"
    /\ secondsRemaining = 1 /\ DurationAt(currentStepIndex) > 1

\* C34: in Finished the start, resume, pause and skip buttons leave the
\* index, the remaining seconds, the three flags and the timer as they
\* are, with no tick source; and no tick is delivered in Finished
C34_FinishedAbsorbing ==
    [][Phase = "Finished" /\ Len(steps) > 0 =>
         /\ lastOp' # "tick"
         /\ lastOp' \in {"start", "resume", "pause", "skip"} =>
              /\ UNCHANGED <<steps, currentStepIndex, secondsRemaining,
                             isRunning, hasStarted, isFinished,
                             intervalId, timers>>
              /\ secondsRemaining' = 0
              /\ Phase' = "Finished"
              /\ NoTickSource']_vars

\* Start of the run screen pressed on a finished workout
C34_Witness ==
    /\ lastOp = "start" /\ prevPhase = "Finished" /\ Phase = "Finished"
    /\ Len(steps) > 0 /\ secondsRemaining = 0 /\ NoTickSource

\* Pause pressed on a finished workout
C34_PauseInFinished ==
    /\ lastOp = "pause" /\ prevPhase = "Finished" /\ Phase = "Finished"
    /\ Len(steps) > 0 /\ NoTickSource

\* the seconds of the steps before the current one and of the current
\* step that have gone by
Elapsed ==
    SumDurations(SubSeq(steps, 1, currentStepIndex), 1)
        + DurationAt(currentStepIndex) - secondsRemaining

TotalDuration == SumDurations(steps, 1)

\* only ticks have moved the run since its Start
TicksAlone == tickCount # NoCount /\ Len(steps) > 0

\* C35: with ticks delivered and no pause, reset or way back to setup a
\* running workout finishes; a run moved by ticks alone has used as many
\* ticks as seconds have gone by, is finished exactly when their number is
\* the sum of all step durations, and each tick stays on the step or moves
\* to the next one
C35_TicksFinish ==
    /\ (Phase = "Running") ~> (Phase = "Finished")
    /\ [](TicksAlone =>
            /\ tickCount = Elapsed
            /\ tickCount <= TotalDuration
            /\ Phase = "Finished" <=> tickCount = TotalDuration)
    /\ [][lastOp' = "tick" =>
            /\ currentStepIndex' \in {currentStepIndex, currentStepIndex + 1}
            /\ currentStepIndex' = currentStepIndex + 1 =>
                   secondsRemaining = 1]_vars

\* a workout of several steps finished by ticks alone
C35_Witness ==
    /\ TicksAlone /\ Phase = "Finished" /\ lastOp = "tick"
    /\ Len(steps) > 2
    /\ tickCount = TotalDuration
    /\ currentStepIndex = Len(steps) - 1

\* the buttons of the run screen that are not hidden
VisibleButtons ==
    (IF dom.runStartBtnHidden THEN {} ELSE {"start"}) \cup
    (IF dom.pauseBtnHidden THEN {} ELSE {"pause"}) \cup
    (IF dom.resumeBtnHidden THEN {} ELSE {"resume"})

\* C36: between events, while there are steps, Start is visible exactly in
\* NotStarted, Pause exactly in Running, Resume exactly in Paused, and none
\* of the three in Finished, so that never two of them show at once
C36_ButtonsTrackPhase ==
    Len(steps) > 0 =>
        /\ VisibleButtons =
              CASE Phase = "NotStarted" -> {"start"}
                [] Phase = "Running" -> {"pause"}
                [] Phase = "Paused" -> {"resume"}
                [] Phase = "Finished" -> {}
        /\ Cardinality(VisibleButtons) <= 1

\* Skip pressed before the run was started: Start, not Resume, still shows
C36_Witness ==
    /\ lastOp = "skip" /\ prevPhase = "NotStarted" /\ Phase = "NotStarted"
    /\ currentStepIndex > 0
    /\ VisibleButtons = {"start"}

\* Reset pressed on a finished workout: Start shows again
C36_ResetFromFinished ==
    /\ lastOp = "reset" /\ prevPhase = "Finished" /\ Phase = "NotStarted"
    /\ VisibleButtons = {"start"}

\* the width render() has given the progress bar, a fraction of 100
Shown == dom.overallProgressFill

\* fraction p is below fraction q
Below(p, q) == p.num * q.den < q.num * p.den

\* C37: while there are steps the bar shows the percentage of the current
\* position, which is 0 on a fresh first step, 100 exactly when finished
\* and never outside 0..100; no tick or skip lowers it, only a reset or a
\* new workout does
C37_OverallPercent ==
    /\ [](Len(steps) > 0 =>
            /\ Shown = overallPct(Globals)
            /\ Shown.den > 0 /\ 0 <= Shown.num
            /\ Shown.num <= 100 * Shown.den
            /\ Shown.num * SumDurations(steps, 1) = 100 * Elapsed * Shown.den
            /\ (Phase = "NotStarted" /\ currentStepIndex = 0) => Shown.num = 0
            /\ Phase = "Finished" <=> Shown.num = 100 * Shown.den)
    /\ [][/\ lastOp' \in {"tick", "skip"} => ~Below(Shown', Shown)
          /\ Below(Shown', Shown) => lastOp' \in {"reset", "newWorkout"}]_vars

\* finished by a skip on the last step: the bar is full
C37_Witness ==
    /\ lastOp = "skip" /\ Phase = "Finished" /\ prevPhase # "Finished"
    /\ Len(steps) > 1
    /\ Shown = [num |-> 100, den |-> 1]

\* a bar partly filled in the middle of a step
C37_PartWay ==
    /\ lastOp = "tick" /\ Phase = "Running"
    /\ currentStepIndex > 0
    /\ secondsRemaining < DurationAt(currentStepIndex)
    /\ 0 < Shown.num /\ Shown.num < 100 * Shown.den

\* the step is an exercise ("work" in two copies of the builder)
IsExerciseStep(step) == step.type \in {"exercise", "work"}

\* ss begins and ends with an exercise, and each of its other steps (the
\* rest family) stands between two exercises
ExercisesAroundRests(ss) ==
    /\ Len(ss) > 0
    /\ IsExerciseStep(ss[1]) /\ IsExerciseStep(ss[Len(ss)])
    /\ \A k \in 1..Len(ss) :
          ~IsExerciseStep(ss[k]) =>
              /\ ss[k].type \in {"rest", "circuit_rest", "transition_rest"}
              /\ 1 < k /\ k < Len(ss)
              /\ IsExerciseStep(ss[k - 1]) /\ IsExerciseStep(ss[k + 1])

\* C38: the steps built from an accepted form, by each of the three copies
\* of the builder, begin and end with an exercise and never have two rests
\* of any kind next to each other
C38_ExercisesAroundRests ==
    Built =>
        /\ ExercisesAroundRests(steps)
        /\ ExercisesAroundRests(buildStepsPart000(workout))
        /\ ExercisesAroundRests(buildStepsFirst(FirstVariantWorkout(workout)))

\* steps with all three kinds of rest, built for two circuits
C38_Witness ==
    /\ Built /\ workout.circuitB.enabled
    /\ StepsOfType("rest") # {}
    /\ StepsOfType("circuit_rest") # {}
    /\ StepsOfType("transition_rest") # {}
    /\ steps[Len(steps)].type = "exercise" /\ steps[Len(steps)].circuitId = "B"

\* a tick that leaves v seconds on step 0 is what sounds the cue
Trigger(cue, v) ==
    IF cue[1] = "half" THEN v = DurationAt(0) \div 2 ELSE v = cue[3]

\* C39: a reset leaves the three cue trackers cleared, and each cue of step
\* 0 that was sounded before a reset is sounded again when a tick on step 0
\* of the run after it meets the same trigger
C39_ResetRearmsCues ==
    /\ [](lastOp = "reset" /\ Len(steps) > 0 =>
            /\ lastHalfCueStepIndex = NullIndex
            /\ lastFinalCueKey = NullKey
            /\ lastSpokenRestStepIndex = NullIndex)
    /\ [][\A cue \in rerunLog.before :
            /\ lastOp' = "tick" /\ currentStepIndex = 0
            /\ Trigger(cue, secondsRemaining - 1)
            => cue \in CuesSounded']_vars

\* the halfway cue and a final-countdown cue of step 0 sounded by one tick
\* of a run after a reset, both of them sounded before that reset too
C39_Witness ==
    /\ lastOp = "tick" /\ currentStepIndex = 0
    /\ "cueHalf" \in effects /\ "cueFinalTick" \in effects
    /\ CuesSounded \subseteq rerunLog.before
    /\ Cardinality(rerunLog.before) >= 3

====
